---- MODULE Spec2Model ----
(***************************************************************************)
(* pylox: a tree-walking interpreter for Lox (scanner, parser, resolver,   *)
(* interpreter and the driver lox.run / run_file / run_prompt).            *)
(*                                                                         *)
(* The driver is the state machine; the loops of Scanner.scan_tokens,      *)
(* Parser.parse, Resolver.resolve and Interpreter.interpret advance one    *)
(* iteration per step.  What one iteration does (scan one token, parse one *)
(* declaration, resolve or execute one top-level statement) is computed by *)
(* operators that follow the methods of the source one for one.            *)
(*                                                                         *)
(* Python exceptions are threaded through the operators as outcomes:       *)
(*   ParseError        -> the parser record's field exc                    *)
(*   LoxRuntimeError   -> outcome kind "LoxRuntimeError"                   *)
(*   ReturnState       -> outcome kind "ReturnState"                       *)
(*   any other Python exception (KeyError, AttributeError, RuntimeError,   *)
(*   ZeroDivisionError, AssertionError) -> outcome kind "PyException",     *)
(*   which nothing in the program catches: the process dies with a         *)
(*   traceback and exit status 1.                                          *)
(***************************************************************************)
EXTENDS Integers, Sequences, FiniteSets, TLC

(***************************************************************************)
(* Runtime values (lox_types.py).  Python's None is a value of its own.    *)
(* A Number is a float; it is kept as an exact fraction n/d, d > 0, in     *)
(* lowest terms.                                                           *)
(***************************************************************************)
\* the value of a function of one argument: [x \in {v} |-> e] is e with x bound to v
Let(f) == f[CHOOSE x \in DOMAIN f : TRUE]

None == [t |-> "None"]

LOX_NIL == [t |-> "LoxNil"]

LoxBool(b) == [t |-> "LoxBool", value |-> b]

LOX_TRUE == LoxBool(TRUE)

LOX_FALSE == LoxBool(FALSE)

LoxString(s) == [t |-> "LoxString", value |-> s]

Abs(i) == IF i < 0 THEN -i ELSE i

RECURSIVE Gcd(_, _)
Gcd(a, b) == IF b = 0 THEN a ELSE Gcd(b, a % b)

LoxNumber(n, d) ==
    Let([g \in {Gcd(Abs(n), d)} |->
    [t |-> "LoxNumber", n |-> n \div g, d |-> d \div g]])

(***************************************************************************)
(* error.py: LoxErrorHandler.  The two class attributes and what has been  *)
(* written to sys.stderr, one line per element.                            *)
(***************************************************************************)
LoxErrorHandler_init == [HAD_ERROR |-> FALSE, HAD_RUNTIME_ERROR |-> FALSE, stderr |-> <<>>]

\* report that also clears the other flag
LoxErrorHandler_report_clearing(h, line, where, message) ==
    [h EXCEPT !.stderr = Append(@, "[Line " \o ToString(line) \o "] Error" \o where \o ": " \o message),
              !.HAD_ERROR = TRUE,
              !.HAD_RUNTIME_ERROR = FALSE]

LoxErrorHandler_report(h, line, where, message) ==
    [h EXCEPT !.stderr = Append(@, "[Line " \o ToString(line) \o "] Error" \o where \o ": " \o message),
              !.HAD_ERROR = TRUE]

LoxErrorHandler_error(h, line, message) == LoxErrorHandler_report(h, line, "", message)

LoxErrorHandler_parse_error(h, token, message) ==
    IF token.token_type = "EOF"
    THEN LoxErrorHandler_report(h, token.line, " at end", message)
    ELSE LoxErrorHandler_report(h, token.line, " at '" \o token.lexeme \o "'", message)

\* runtime_error printing the message without setting the flag
LoxErrorHandler_runtime_error_unflagged(h, token, message) ==
    [h EXCEPT !.stderr = Append(@, "[Line " \o ToString(token.line) \o "] " \o message)]

LoxErrorHandler_runtime_error(h, token, message) ==
    [h EXCEPT !.stderr = Append(@, "[Line " \o ToString(token.line) \o "] " \o message),
              !.HAD_RUNTIME_ERROR = TRUE]

(***************************************************************************)
(* token.py and scanner.py.  The source is a sequence of one-character     *)
(* strings; _current and _start count characters consumed (0-based, as in  *)
(* the source), so the character under _current is source[current + 1].    *)
(***************************************************************************)
Token(token_type, lexeme, literal, line) ==
    [token_type |-> token_type, lexeme |-> lexeme, literal |-> literal, line |-> line]

KEYWORD_TO_TOKEN_TYPE ==
    ("and" :> "AND") @@ ("class" :> "CLASS") @@ ("else" :> "ELSE") @@ ("false" :> "FALSE") @@
    ("for" :> "FOR") @@ ("fun" :> "FUN") @@ ("if" :> "IF") @@ ("nil" :> "NIL") @@
    ("or" :> "OR") @@ ("print" :> "PRINT") @@ ("return" :> "RETURN") @@ ("super" :> "SUPER") @@
    ("this" :> "THIS") @@ ("true" :> "TRUE") @@ ("var" :> "VAR") @@ ("while" :> "WHILE")

DigitValue ==
    ("0" :> 0) @@ ("1" :> 1) @@ ("2" :> 2) @@ ("3" :> 3) @@ ("4" :> 4) @@
    ("5" :> 5) @@ ("6" :> 6) @@ ("7" :> 7) @@ ("8" :> 8) @@ ("9" :> 9)

isdigit(c) == c \in DOMAIN DigitValue

isalpha(c) ==
    c \in {"a", "b", "c", "d", "e", "f", "g", "h", "i", "j", "k", "l", "m",
           "n", "o", "p", "q", "r", "s", "t", "u", "v", "w", "x", "y", "z",
           "A", "B", "C", "D", "E", "F", "G", "H", "I", "J", "K", "L", "M",
           "N", "O", "P", "Q", "R", "S", "T", "U", "V", "W", "X", "Y", "Z"}

is_alpha(c) == isalpha(c) \/ c = "_"

\* "".join(chars): the text of a slice of the source
RECURSIVE Join(_)
Join(chars) == IF chars = <<>> THEN "" ELSE Head(chars) \o Join(Tail(chars))

\* source[a:b] of Python, as text
Slice(source, a, b) == Join(SubSeq(source, a + 1, b))

RECURSIVE Pow10(_)
Pow10(k) == IF k = 0 THEN 1 ELSE 10 * Pow10(k - 1)

\* the integer written by a sequence of digit characters
RECURSIVE DigitsValue(_)
DigitsValue(chars) ==
    IF chars = <<>> THEN 0
    ELSE 10 * DigitsValue(SubSeq(chars, 1, Len(chars) - 1)) + DigitValue[chars[Len(chars)]]

\* float(text) for the texts add_number produces: digits, or digits "." digits
float(chars) ==
    Let([dots \in {{i \in 1..Len(chars) : chars[i] = "."}} |->
    IF dots = {}
    THEN LoxNumber(DigitsValue(chars), 1)
    ELSE Let([i \in {CHOOSE j \in dots : TRUE} |->
         Let([whole \in {SubSeq(chars, 1, i - 1)} |->
         Let([frac \in {SubSeq(chars, i + 1, Len(chars))} |->
         LoxNumber(DigitsValue(whole \o frac), Pow10(Len(frac)))])])])])

Scanner_init(source, h) ==
    [source |-> source, tokens |-> <<>>, current |-> 0, start |-> 0, line |-> 1, eh |-> h]

Scanner_is_at_end(sc) == sc.current >= Len(sc.source)

Scanner_peek(sc) == IF Scanner_is_at_end(sc) THEN "NUL" ELSE sc.source[sc.current + 1]

Scanner_peek_next(sc) ==
    IF sc.current + 1 >= Len(sc.source) THEN "NUL" ELSE sc.source[sc.current + 2]

\* advance() returns source[current] and moves on; the character is read by the caller
Scanner_advance(sc) == [sc EXCEPT !.current = @ + 1]

Scanner_match_advance(sc, expected) ==
    IF Scanner_is_at_end(sc) THEN [ok |-> FALSE, sc |-> sc]
    ELSE IF sc.source[sc.current + 1] # expected THEN [ok |-> FALSE, sc |-> sc]
    ELSE [ok |-> TRUE, sc |-> [sc EXCEPT !.current = @ + 1]]

\* add_token that slices one character short
Scanner_add_token_short(sc, token_type, literal) ==
    [sc EXCEPT !.tokens = Append(@, Token(token_type, Slice(sc.source, sc.start, sc.current - 1),
                                          literal, sc.line))]

Scanner_add_token(sc, token_type, literal) ==
    [sc EXCEPT !.tokens = Append(@, Token(token_type, Slice(sc.source, sc.start, sc.current),
                                          literal, sc.line))]

\* the loop of the "//" branch of scan_token
RECURSIVE Scanner_skip_comment(_)
Scanner_skip_comment(sc) ==
    IF Scanner_peek(sc) # "\n" /\ ~Scanner_is_at_end(sc)
    THEN Scanner_skip_comment(Scanner_advance(sc))
    ELSE sc

RECURSIVE Scanner_string_loop(_)
Scanner_string_loop(sc) ==
    IF Scanner_peek(sc) # "\"" /\ ~Scanner_is_at_end(sc)
    THEN Scanner_string_loop(
             Scanner_advance(IF Scanner_peek(sc) = "\n" THEN [sc EXCEPT !.line = @ + 1] ELSE sc))
    ELSE sc

Scanner_add_string(sc0) ==
    Let([sc \in {Scanner_string_loop(sc0)} |->
    IF Scanner_is_at_end(sc)
    THEN [sc EXCEPT !.eh = LoxErrorHandler_error(@, sc.line, "Unterminated string.")]
    ELSE Let([sc1 \in {Scanner_advance(sc)} |->
         Scanner_add_token(sc1, "STRING",
                           LoxString(Slice(sc1.source, sc1.start + 1, sc1.current - 1)))])])

RECURSIVE Scanner_digit_loop(_)
Scanner_digit_loop(sc) ==
    IF isdigit(Scanner_peek(sc)) THEN Scanner_digit_loop(Scanner_advance(sc)) ELSE sc

Scanner_add_number(sc0) ==
    Let([sc1 \in {Scanner_digit_loop(sc0)} |->
    Let([sc2 \in {IF Scanner_peek(sc1) = "." /\ isdigit(Scanner_peek_next(sc1))
                  THEN Scanner_digit_loop(Scanner_advance(sc1))
                  ELSE sc1} |->
    Scanner_add_token(sc2, "NUMBER", float(SubSeq(sc2.source, sc2.start + 1, sc2.current)))])])

RECURSIVE Scanner_alpha_loop(_)
Scanner_alpha_loop(sc) ==
    IF is_alpha(Scanner_peek(sc)) THEN Scanner_alpha_loop(Scanner_advance(sc)) ELSE sc

Scanner_add_identifier(sc0) ==
    Let([sc \in {Scanner_alpha_loop(sc0)} |->
    Let([text \in {Slice(sc.source, sc.start, sc.current)} |->
    Let([token_type \in {IF text \in DOMAIN KEYWORD_TO_TOKEN_TYPE
                         THEN KEYWORD_TO_TOKEN_TYPE[text] ELSE "IDENTIFIER"} |->
    Scanner_add_token(sc, token_type, None)])])])

Scanner_two_char(sc, two, one) ==
    Let([m \in {Scanner_match_advance(sc, "=")} |->
    Scanner_add_token(m.sc, IF m.ok THEN two ELSE one, None)])

Scanner_scan_token(sc0) ==
    Let([c \in {sc0.source[sc0.current + 1]} |->
    Let([sc \in {Scanner_advance(sc0)} |->
    Let([single \in {("(" :> "LEFT_PAREN") @@ (")" :> "RIGHT_PAREN") @@ ("{" :> "LEFT_BRACE") @@
                     ("}" :> "RIGHT_BRACE") @@ ("," :> "COMMA") @@ ("." :> "DOT") @@
                     ("-" :> "MINUS") @@ ("+" :> "PLUS") @@ (";" :> "SEMICOLON") @@
                     ("*" :> "STAR")} |->
    IF c \in DOMAIN single THEN Scanner_add_token(sc, single[c], None)
    ELSE IF c = "!" THEN Scanner_two_char(sc, "BANG_EQUAL", "BANG")
    ELSE IF c = "=" THEN Scanner_two_char(sc, "EQUAL_EQUAL", "EQUAL")
    ELSE IF c = "<" THEN Scanner_two_char(sc, "LESS_EQUAL", "LESS")
    ELSE IF c = ">" THEN Scanner_two_char(sc, "GREATER_EQUAL", "GREATER")
    ELSE IF c = "/"
         THEN Let([m \in {Scanner_match_advance(sc, "/")} |->
              IF m.ok THEN Scanner_skip_comment(m.sc)
              ELSE Scanner_add_token(sc, "SLASH", None)])
    ELSE IF c \in {" ", "\r", "\t"} THEN sc
    ELSE IF c = "\n" THEN [sc EXCEPT !.line = @ + 1]
    ELSE IF c = "\"" THEN Scanner_add_string(sc)
    ELSE IF isdigit(c) THEN Scanner_add_number(sc)
    ELSE IF is_alpha(c) THEN Scanner_add_identifier(sc)
    ELSE [sc EXCEPT !.eh = LoxErrorHandler_error(@, sc.line, "Unexpected character.")]])])])

(***************************************************************************)
(* expression.py and statement.py: the AST.  A node is a record whose      *)
(* field k names its class.  Python keys the resolution table on object    *)
(* identity; a Variable, Assign, This or Super node carries as `id` the    *)
(* position of its name/keyword token (unique in a token list) plus a base *)
(* that differs from one run() to the next.                                *)
(***************************************************************************)
IsNode(x) == "k" \in DOMAIN x

\* isinstance(x, <class cls of expression.py / statement.py>)
isinstance(x, cls) == IsNode(x) /\ x.k = cls

Literal(value) == [k |-> "Literal", value |-> value]

Variable(name, id) == [k |-> "Variable", name |-> name, id |-> id]

Assign(name, value, id) == [k |-> "Assign", name |-> name, value |-> value, id |-> id]

Binary(left, operator, right) == [k |-> "Binary", left |-> left, operator |-> operator, right |-> right]

Logical(left, operator, right) == [k |-> "Logical", left |-> left, operator |-> operator, right |-> right]

Unary(operator, right) == [k |-> "Unary", operator |-> operator, right |-> right]

Grouping(expression) == [k |-> "Grouping", expression |-> expression]

Call(callee, paren, arguments) == [k |-> "Call", callee |-> callee, paren |-> paren, arguments |-> arguments]

Get(instance, name) == [k |-> "Get", instance |-> instance, name |-> name]

Set(instance, name, value) == [k |-> "Set", instance |-> instance, name |-> name, value |-> value]

This(keyword, id) == [k |-> "This", keyword |-> keyword, id |-> id]

Super(keyword, method, id) == [k |-> "Super", keyword |-> keyword, method |-> method, id |-> id]

Block(statements) == [k |-> "Block", statements |-> statements]

Class(name, superclass, methods) == [k |-> "Class", name |-> name, superclass |-> superclass, methods |-> methods]

Expression(expression) == [k |-> "Expression", expression |-> expression]

Function(name, params, body) == [k |-> "Function", name |-> name, params |-> params, body |-> body]

If(condition, then_branch, else_branch) ==
    [k |-> "If", condition |-> condition, then_branch |-> then_branch, else_branch |-> else_branch]

Null == [k |-> "Null"]

PrintStmt(expression) == [k |-> "Print", expression |-> expression]

Return(keyword, value) == [k |-> "Return", keyword |-> keyword, value |-> value]

Var(name, initializer) == [k |-> "Var", name |-> name, initializer |-> initializer]

While(condition, body) == [k |-> "While", condition |-> condition, body |-> body]

(***************************************************************************)
(* parser.py.  The parser record p holds _tokens, _current, the error      *)
(* handler and exc: a ParseError has been raised and is propagating.  A    *)
(* method returns [p |-> parser afterwards, v |-> its return value]; while *)
(* exc is set every method returns at once, which is the unwinding, until  *)
(* _declaration catches it.                                                *)
(***************************************************************************)
ARGS_MAX_SIZE == 255

Parser_init(tokens, h, base) == [tokens |-> tokens, current |-> 0, eh |-> h, exc |-> FALSE, base |-> base]

Parser_peek(p) == p.tokens[p.current + 1]

\* _tokens[_current - 1]; Python's index -1 is the last element
Parser_previous(p) == IF p.current = 0 THEN p.tokens[Len(p.tokens)] ELSE p.tokens[p.current]

Parser_is_at_end(p) == Parser_peek(p).token_type = "EOF"

Parser_check(p, token_type) ==
    IF Parser_is_at_end(p) THEN FALSE ELSE Parser_peek(p).token_type = token_type

Parser_multicheck(p, token_types) ==
    IF Parser_is_at_end(p) THEN FALSE ELSE Parser_peek(p).token_type \in token_types

Parser_advance(p) == IF ~Parser_is_at_end(p) THEN [p EXCEPT !.current = @ + 1] ELSE p

Parser_match(p, token_type) ==
    IF ~p.exc /\ Parser_check(p, token_type)
    THEN [ok |-> TRUE, p |-> Parser_advance(p)]
    ELSE [ok |-> FALSE, p |-> p]

Parser_multimatch(p, token_types) ==
    IF ~p.exc /\ Parser_multicheck(p, token_types)
    THEN [ok |-> TRUE, p |-> Parser_advance(p)]
    ELSE [ok |-> FALSE, p |-> p]

\* _error reports and returns the ParseError; raising it is the caller's business
Parser_error(p, token, message) == [p EXCEPT !.eh = LoxErrorHandler_parse_error(@, token, message)]

Parser_consume(p, token_type, message) ==
    IF p.exc THEN [p |-> p, v |-> None]
    ELSE IF Parser_check(p, token_type)
    THEN [p |-> Parser_advance(p), v |-> Parser_previous(Parser_advance(p))]
    ELSE [p |-> [Parser_error(p, Parser_peek(p), message) EXCEPT !.exc = TRUE], v |-> None]

\* the id of the node built from the token just consumed
Parser_node_id(p) == <<p.base, p.current>>

RECURSIVE Parser_synchronize_loop(_)
Parser_synchronize_loop(p) ==
    IF Parser_is_at_end(p) THEN p
    ELSE IF Parser_previous(p).token_type = "SEMICOLON" THEN p
    ELSE IF Parser_peek(p).token_type
            \in {"CLASS", "FUN", "VAR", "FOR", "IF", "WHILE", "PRINT", "RETURN"} THEN p
    ELSE Parser_synchronize_loop(Parser_advance(p))

\* _synchronize without its first advance
Parser_synchronize_in_place(p) == Parser_synchronize_loop(p)

Parser_synchronize(p) == Parser_synchronize_loop(Parser_advance(p))

RECURSIVE Parser_declaration(_), Parser_statement(_), Parser_expression(_)

Parser_primary(p) ==
    IF p.exc THEN [p |-> p, v |-> None]
    ELSE IF Parser_check(p, "FALSE") THEN [p |-> Parser_advance(p), v |-> Literal(LOX_FALSE)]
    ELSE IF Parser_check(p, "TRUE") THEN [p |-> Parser_advance(p), v |-> Literal(LOX_TRUE)]
    ELSE IF Parser_check(p, "NIL") THEN [p |-> Parser_advance(p), v |-> Literal(LOX_NIL)]
    ELSE IF Parser_multicheck(p, {"NUMBER", "STRING"})
    THEN [p |-> Parser_advance(p), v |-> Literal(Parser_peek(p).literal)]
    ELSE IF Parser_check(p, "THIS")
    THEN Let([p1 \in {Parser_advance(p)} |-> [p |-> p1, v |-> This(Parser_previous(p1), Parser_node_id(p1))]])
    ELSE IF Parser_check(p, "SUPER")
    THEN Let([p1 \in {Parser_advance(p)} |->
         Let([keyword \in {Parser_previous(p1)} |->
         Let([dot \in {Parser_consume(p1, "DOT", "Expect '.' after 'super'.")} |->
         Let([method \in {Parser_consume(dot.p, "IDENTIFIER", "Expect superclass method name.")} |->
         [p |-> method.p, v |-> Super(keyword, method.v, Parser_node_id(p1))]])])])])
    ELSE IF Parser_check(p, "IDENTIFIER")
    THEN Let([p1 \in {Parser_advance(p)} |-> [p |-> p1, v |-> Variable(Parser_previous(p1), Parser_node_id(p1))]])
    ELSE IF Parser_check(p, "LEFT_PAREN")
    THEN Let([expr \in {Parser_expression(Parser_advance(p))} |->
         Let([close \in {Parser_consume(expr.p, "RIGHT_PAREN", "Expect ')' after expression.")} |->
         [p |-> close.p, v |-> Grouping(expr.v)]])])
    ELSE \* the error is reported, not raised: the method falls off its end and returns None
         [p |-> Parser_error(p, Parser_peek(p), "Could not match token."), v |-> None]

\* args.append(self._expression()); while self._match(COMMA): ... args.append(self._expression()).
\* The two calls of _expression are one here: an iteration parses the argument at p, the first
\* one included, and then looks for the comma.
RECURSIVE Parser_finish_call_loop(_, _)
Parser_finish_call_loop(p, args) ==
    Let([arg \in {Parser_expression(p)} |->
    Let([m \in {Parser_match(arg.p, "COMMA")} |->
    IF ~m.ok THEN [p |-> arg.p, v |-> Append(args, arg.v)]
    ELSE Parser_finish_call_loop(
             IF Len(args) + 1 >= ARGS_MAX_SIZE
             THEN Parser_error(m.p, Parser_peek(m.p),
                      "Can't have more than " \o ToString(ARGS_MAX_SIZE) \o " arguments.")
             ELSE m.p,
             Append(args, arg.v))])])

Parser_finish_call(p, callee) ==
    IF p.exc THEN [p |-> p, v |-> None]
    ELSE Let([args \in {IF ~Parser_check(p, "RIGHT_PAREN")
                        THEN Parser_finish_call_loop(p, <<>>)
                        ELSE [p |-> p, v |-> <<>>]} |->
         Let([paren \in {Parser_consume(args.p, "RIGHT_PAREN", "Expect ')' after arguments.")} |->
         [p |-> paren.p, v |-> Call(callee, paren.v, args.v)]])])

RECURSIVE Parser_call_loop(_, _)
Parser_call_loop(p, expr) ==
    Let([paren \in {Parser_match(p, "LEFT_PAREN")} |->
    Let([dot \in {Parser_match(p, "DOT")} |->
    IF paren.ok
    THEN Let([call \in {Parser_finish_call(paren.p, expr)} |-> Parser_call_loop(call.p, call.v)])
    ELSE IF dot.ok
    THEN Let([name \in {Parser_consume(dot.p, "IDENTIFIER", "Expect property name after '.'.")} |->
         Parser_call_loop(name.p, Get(expr, name.v))])
    ELSE [p |-> p, v |-> expr]])])

Parser_call(p) == Let([expr \in {Parser_primary(p)} |-> Parser_call_loop(expr.p, expr.v)])

RECURSIVE Parser_unary(_)
Parser_unary(p) ==
    Let([m \in {Parser_multimatch(p, {"BANG", "MINUS"})} |->
    IF m.ok
    THEN Let([operator \in {Parser_previous(m.p)} |->
         Let([right \in {Parser_unary(m.p)} |->
         [p |-> right.p, v |-> Unary(operator, right.v)]])])
    ELSE Parser_call(p)])

\* The binary levels, each  expr = operand(); while match(...): operator = previous();
\* right = operand(); expr = Node(expr, operator, right).  left and operator are the method's
\* locals expr and operator, None when the method is entered.  The two calls of the operand's
\* method are one here: an iteration parses the operand at p, joins it to what is to its left
\* and then looks for the next operator.
RECURSIVE Parser_factor(_, _, _)
Parser_factor(p, left, operator) ==
    Let([operand \in {Parser_unary(p)} |->
    Let([expr \in {IF operator = None THEN operand.v ELSE Binary(left, operator, operand.v)} |->
    Let([m \in {Parser_multimatch(operand.p, {"SLASH", "STAR"})} |->
    IF ~m.ok THEN [p |-> operand.p, v |-> expr]
    ELSE Parser_factor(m.p, expr, Parser_previous(m.p))])])])

RECURSIVE Parser_term(_, _, _)
Parser_term(p, left, operator) ==
    Let([operand \in {Parser_factor(p, None, None)} |->
    Let([expr \in {IF operator = None THEN operand.v ELSE Binary(left, operator, operand.v)} |->
    Let([m \in {Parser_multimatch(operand.p, {"PLUS", "MINUS"})} |->
    IF ~m.ok THEN [p |-> operand.p, v |-> expr]
    ELSE Parser_term(m.p, expr, Parser_previous(m.p))])])])

RECURSIVE Parser_comparison(_, _, _)
Parser_comparison(p, left, operator) ==
    Let([operand \in {Parser_term(p, None, None)} |->
    Let([expr \in {IF operator = None THEN operand.v ELSE Binary(left, operator, operand.v)} |->
    Let([m \in {Parser_multimatch(operand.p, {"GREATER", "GREATER_EQUAL", "LESS", "LESS_EQUAL"})} |->
    IF ~m.ok THEN [p |-> operand.p, v |-> expr]
    ELSE Parser_comparison(m.p, expr, Parser_previous(m.p))])])])

RECURSIVE Parser_equality(_, _, _)
Parser_equality(p, left, operator) ==
    Let([operand \in {Parser_comparison(p, None, None)} |->
    Let([expr \in {IF operator = None THEN operand.v ELSE Binary(left, operator, operand.v)} |->
    Let([m \in {Parser_multimatch(operand.p, {"BANG_EQUAL", "EQUAL_EQUAL"})} |->
    IF ~m.ok THEN [p |-> operand.p, v |-> expr]
    ELSE Parser_equality(m.p, expr, Parser_previous(m.p))])])])

RECURSIVE Parser_and(_, _, _)
Parser_and(p, left, operator) ==
    Let([operand \in {Parser_equality(p, None, None)} |->
    Let([expr \in {IF operator = None THEN operand.v ELSE Logical(left, operator, operand.v)} |->
    Let([m \in {Parser_match(operand.p, "AND")} |->
    IF ~m.ok THEN [p |-> operand.p, v |-> expr]
    ELSE Parser_and(m.p, expr, Parser_previous(m.p))])])])

RECURSIVE Parser_or(_, _, _)
Parser_or(p, left, operator) ==
    Let([operand \in {Parser_and(p, None, None)} |->
    Let([expr \in {IF operator = None THEN operand.v ELSE Logical(left, operator, operand.v)} |->
    Let([m \in {Parser_match(operand.p, "OR")} |->
    IF ~m.ok THEN [p |-> operand.p, v |-> expr]
    ELSE Parser_or(m.p, expr, Parser_previous(m.p))])])])

RECURSIVE Parser_assignment(_)
Parser_assignment(p) ==
    Let([expr \in {Parser_or(p, None, None)} |->
    Let([m \in {Parser_match(expr.p, "EQUAL")} |->
    IF ~m.ok THEN expr
    ELSE Let([equals \in {Parser_previous(m.p)} |->
         Let([value \in {Parser_assignment(m.p)} |->
         IF value.p.exc THEN [p |-> value.p, v |-> None]
         ELSE IF isinstance(expr.v, "Variable")
         THEN [p |-> value.p, v |-> Assign(expr.v.name, value.v, expr.v.id)]
         ELSE IF isinstance(expr.v, "Get")
         THEN [p |-> value.p, v |-> Set(expr.v.instance, expr.v.name, value.v)]
         ELSE [p |-> Parser_error(value.p, equals, "Invalid assignment target."), v |-> expr.v]])])])])

Parser_expression(p) == Parser_assignment(p)

RECURSIVE Parser_block_loop(_, _)
Parser_block_loop(p, statements) ==
    IF ~p.exc /\ ~Parser_check(p, "RIGHT_BRACE") /\ ~Parser_is_at_end(p)
    THEN Let([d \in {Parser_declaration(p)} |-> Parser_block_loop(d.p, Append(statements, d.v))])
    ELSE [p |-> p, v |-> statements]

Parser_block(p) ==
    Let([statements \in {Parser_block_loop(p, <<>>)} |->
    Let([close \in {Parser_consume(statements.p, "RIGHT_BRACE", "Expect '}' after block.")} |->
    [p |-> close.p, v |-> statements.v]])])

RECURSIVE Parser_parameters_loop(_, _)
Parser_parameters_loop(p, parameters) ==
    Let([m \in {Parser_match(p, "COMMA")} |->
    IF ~m.ok THEN [p |-> p, v |-> parameters]
    ELSE Let([name \in {Parser_consume(m.p, "IDENTIFIER", "Expect parameter name.")} |->
         Parser_parameters_loop(name.p, Append(parameters, name.v))])])

Parser_function(p, kind) ==
    Let([name \in {Parser_consume(p, "IDENTIFIER", "Expect " \o kind \o " name.")} |->
    Let([open \in {Parser_consume(name.p, "LEFT_PAREN", "Expect '(' after " \o kind \o " name.")} |->
    Let([parameters \in {IF ~open.p.exc /\ ~Parser_check(open.p, "RIGHT_PAREN")
               THEN Let([first \in {Parser_consume(open.p, "IDENTIFIER", "Expect parameter name.")} |->
                    Parser_parameters_loop(first.p, <<first.v>>)])
               ELSE [p |-> open.p, v |-> <<>>]} |->
    Let([close \in {Parser_consume(parameters.p, "RIGHT_PAREN", "Expect ')' after parameters.")} |->
    Let([brace \in {Parser_consume(close.p, "LEFT_BRACE", "Expect '{' before " \o kind \o " body.")} |->
    Let([body \in {Parser_block(brace.p)} |->
    [p |-> body.p, v |-> Function(name.v, parameters.v, body.v)]])])])])])])

RECURSIVE Parser_methods_loop(_, _)
Parser_methods_loop(p, methods) ==
    IF ~p.exc /\ ~Parser_check(p, "RIGHT_BRACE") /\ ~Parser_is_at_end(p)
    THEN Let([f \in {Parser_function(p, "method")} |-> Parser_methods_loop(f.p, Append(methods, f.v))])
    ELSE [p |-> p, v |-> methods]

Parser_class_declaration(p) ==
    Let([name \in {Parser_consume(p, "IDENTIFIER", "Expect class name.")} |->
    Let([less \in {Parser_match(name.p, "LESS")} |->
    Let([superclass \in {IF less.ok
               THEN Let([c \in {Parser_consume(less.p, "IDENTIFIER", "Expect superclass name.")} |->
                    [p |-> c.p, v |-> Variable(Parser_previous(c.p), Parser_node_id(c.p))]])
               ELSE [p |-> name.p, v |-> None]} |->
    Let([open \in {Parser_consume(superclass.p, "LEFT_BRACE", "Expect '{' before class body.")} |->
    Let([methods \in {Parser_methods_loop(open.p, <<>>)} |->
    Let([close \in {Parser_consume(methods.p, "RIGHT_BRACE", "Expect '}' after class body.")} |->
    [p |-> close.p, v |-> Class(name.v, superclass.v, methods.v)]])])])])])])

Parser_var_declaration(p) ==
    Let([name \in {Parser_consume(p, "IDENTIFIER", "Expect variable name.")} |->
    Let([equal \in {Parser_match(name.p, "EQUAL")} |->
    Let([initializer \in {IF equal.ok THEN Parser_expression(equal.p)
                          ELSE [p |-> name.p, v |-> Literal(LOX_NIL)]} |->
    Let([semi \in {Parser_consume(initializer.p, "SEMICOLON", "Expect ';' after variable declaration.")} |->
    [p |-> semi.p, v |-> Var(name.v, initializer.v)]])])])])

\* value starts as LOX_NIL, the runtime value (an object that is no Expr), not None
Parser_return_statement(p) ==
    Let([keyword \in {Parser_previous(p)} |->
    Let([value \in {IF ~Parser_check(p, "SEMICOLON") THEN Parser_expression(p)
                    ELSE [p |-> p, v |-> LOX_NIL]} |->
    Let([semi \in {Parser_consume(value.p, "SEMICOLON", "Expect ';' after return value.")} |->
    [p |-> semi.p, v |-> Return(keyword, value.v)]])])])

Parser_print_statement(p) ==
    Let([value \in {Parser_expression(p)} |->
    Let([semi \in {Parser_consume(value.p, "SEMICOLON", "Expect ';' after value.")} |->
    [p |-> semi.p, v |-> PrintStmt(value.v)]])])

Parser_expression_statement(p) ==
    Let([expr \in {Parser_expression(p)} |->
    Let([semi \in {Parser_consume(expr.p, "SEMICOLON", "Expect ';' after expression.")} |->
    [p |-> semi.p, v |-> Expression(expr.v)]])])

Parser_if_statement(p) ==
    Let([open \in {Parser_consume(p, "LEFT_PAREN", "Expect '(' after 'if'.")} |->
    Let([condition \in {Parser_expression(open.p)} |->
    Let([close \in {Parser_consume(condition.p, "RIGHT_PAREN", "Expect ')' after if condition.")} |->
    Let([then_branch \in {Parser_statement(close.p)} |->
    Let([else \in {Parser_match(then_branch.p, "ELSE")} |->
    Let([else_branch \in {IF else.ok THEN Parser_statement(else.p)
                          ELSE [p |-> then_branch.p, v |-> Null]} |->
    [p |-> else_branch.p, v |-> If(condition.v, then_branch.v, else_branch.v)]])])])])])])

Parser_while_statement(p) ==
    Let([open \in {Parser_consume(p, "LEFT_PAREN", "Expect '(' after 'while'.")} |->
    Let([condition \in {Parser_expression(open.p)} |->
    Let([close \in {Parser_consume(condition.p, "RIGHT_PAREN", "Expect ')' after condition.")} |->
    Let([body \in {Parser_statement(close.p)} |->
    [p |-> body.p, v |-> While(condition.v, body.v)]])])])])

\* _for_statement that runs the increment before the body
Parser_for_statement_increment_first(p) ==
    Let([open \in {Parser_consume(p, "LEFT_PAREN", "Expect '(' after 'for'.")} |->
    Let([semi0 \in {Parser_match(open.p, "SEMICOLON")} |->
    Let([var \in {Parser_match(open.p, "VAR")} |->
    Let([initializer \in {IF semi0.ok THEN [p |-> semi0.p, v |-> None]
               ELSE IF var.ok THEN Parser_var_declaration(var.p)
               ELSE Parser_expression_statement(open.p)} |->
    Let([condition \in {IF ~initializer.p.exc /\ ~Parser_check(initializer.p, "SEMICOLON")
               THEN Parser_expression(initializer.p)
               ELSE [p |-> initializer.p, v |-> None]} |->
    Let([semi1 \in {Parser_consume(condition.p, "SEMICOLON", "Expect ';' after loop condition.")} |->
    Let([increment \in {IF ~semi1.p.exc /\ ~Parser_check(semi1.p, "RIGHT_PAREN")
               THEN Parser_expression(semi1.p)
               ELSE [p |-> semi1.p, v |-> None]} |->
    Let([close \in {Parser_consume(increment.p, "RIGHT_PAREN", "Expect ')' after for clauses.")} |->
    Let([body \in {Parser_statement(close.p)} |->
    Let([body1 \in {IF increment.v # None THEN Block(<<Expression(increment.v), body.v>>) ELSE body.v} |->
    Let([body2 \in {While(IF condition.v = None THEN Literal(LOX_TRUE) ELSE condition.v, body1)} |->
    Let([body3 \in {IF initializer.v # None THEN Block(<<initializer.v, body2>>) ELSE body2} |->
    [p |-> body.p, v |-> body3]])])])])])])])])])])])])

Parser_for_statement(p) ==
    Let([open \in {Parser_consume(p, "LEFT_PAREN", "Expect '(' after 'for'.")} |->
    Let([semi0 \in {Parser_match(open.p, "SEMICOLON")} |->
    Let([var \in {Parser_match(open.p, "VAR")} |->
    Let([initializer \in {IF semi0.ok THEN [p |-> semi0.p, v |-> None]
               ELSE IF var.ok THEN Parser_var_declaration(var.p)
               ELSE Parser_expression_statement(open.p)} |->
    Let([condition \in {IF ~initializer.p.exc /\ ~Parser_check(initializer.p, "SEMICOLON")
               THEN Parser_expression(initializer.p)
               ELSE [p |-> initializer.p, v |-> None]} |->
    Let([semi1 \in {Parser_consume(condition.p, "SEMICOLON", "Expect ';' after loop condition.")} |->
    Let([increment \in {IF ~semi1.p.exc /\ ~Parser_check(semi1.p, "RIGHT_PAREN")
               THEN Parser_expression(semi1.p)
               ELSE [p |-> semi1.p, v |-> None]} |->
    Let([close \in {Parser_consume(increment.p, "RIGHT_PAREN", "Expect ')' after for clauses.")} |->
    Let([body \in {Parser_statement(close.p)} |->
    Let([body1 \in {IF increment.v # None THEN Block(<<body.v, Expression(increment.v)>>) ELSE body.v} |->
    Let([body2 \in {While(IF condition.v = None THEN Literal(LOX_TRUE) ELSE condition.v, body1)} |->
    Let([body3 \in {IF initializer.v # None THEN Block(<<initializer.v, body2>>) ELSE body2} |->
    [p |-> body.p, v |-> body3]])])])])])])])])])])])])

Parser_statement(p) ==
    IF p.exc THEN [p |-> p, v |-> None]
    ELSE IF Parser_check(p, "FOR") THEN Parser_for_statement(Parser_advance(p))
    ELSE IF Parser_check(p, "IF") THEN Parser_if_statement(Parser_advance(p))
    ELSE IF Parser_check(p, "PRINT") THEN Parser_print_statement(Parser_advance(p))
    ELSE IF Parser_check(p, "RETURN") THEN Parser_return_statement(Parser_advance(p))
    ELSE IF Parser_check(p, "WHILE") THEN Parser_while_statement(Parser_advance(p))
    ELSE IF Parser_check(p, "LEFT_BRACE")
    THEN Let([b \in {Parser_block(Parser_advance(p))} |-> [p |-> b.p, v |-> Block(b.v)]])
    ELSE Parser_expression_statement(p)

\* try ... except ParseError: _synchronize(); return None
Parser_declaration(p) ==
    Let([r \in {IF Parser_check(p, "CLASS") THEN Parser_class_declaration(Parser_advance(p))
                ELSE IF Parser_check(p, "FUN") THEN Parser_function(Parser_advance(p), "function")
                ELSE IF Parser_check(p, "VAR") THEN Parser_var_declaration(Parser_advance(p))
                ELSE Parser_statement(p)} |->
    IF r.p.exc
    THEN [p |-> Parser_synchronize([r.p EXCEPT !.exc = FALSE]), v |-> None]
    ELSE r])

(***************************************************************************)
(* Python dicts: functions whose domain is the set of keys present.        *)
(***************************************************************************)
EmptyDict == [key \in {} |-> None]

DictSet(d, key, value) == [x \in DOMAIN d \cup {key} |-> IF x = key THEN value ELSE d[x]]

\* d.get(key): None when the key is absent
DictGet(d, key) == IF key \in DOMAIN d THEN d[key] ELSE None

(***************************************************************************)
(* resolver.py.  The resolver record r holds _scopes (innermost last),     *)
(* _current_function, _current_class, the error handler, the interpreter's *)
(* _locals (Interpreter.resolve writes it) and exc: the name of the Python *)
(* exception that is propagating, "" when none is.  No method of the       *)
(* resolver catches an exception; the finally clauses of its context       *)
(* managers still run while it unwinds.                                    *)
(***************************************************************************)
Resolver_init(h, locals) ==
    [scopes |-> <<>>, current_function |-> "NoFunction", current_class |-> "NONE",
     eh |-> h, locals |-> locals, exc |-> ""]

Resolver_raise(r, exception) == [r EXCEPT !.exc = exception]

Resolver_error(r, line, message) == [r EXCEPT !.eh = LoxErrorHandler_error(@, line, message)]

Resolver_begin_scope(r) == [r EXCEPT !.scopes = Append(@, EmptyDict)]

Resolver_end_scope(r) == [r EXCEPT !.scopes = SubSeq(@, 1, Len(@) - 1)]

\* scopes[-1][key] = value
Resolver_scope_set(r, key, value) ==
    [r EXCEPT !.scopes[Len(r.scopes)] = DictSet(@, key, value)]

Resolver_declare(r, name) ==
    IF r.scopes = <<>> THEN r
    ELSE Let([r1 \in {IF name.lexeme \in DOMAIN r.scopes[Len(r.scopes)]
                      THEN Resolver_error(r, name.line,
                               "Already a variable with the name '" \o name.lexeme \o "' in this scope.")
                      ELSE r} |->
         Resolver_scope_set(r1, name.lexeme, FALSE)])

Resolver_define(r, name) ==
    IF r.scopes = <<>> THEN r ELSE Resolver_scope_set(r, name.lexeme, TRUE)

\* Interpreter.resolve(expr, depth): _locals[expr] = depth
Interpreter_resolve(locals, expr, depth) == DictSet(locals, expr.id, depth)

\* for idx, scope in enumerate(reversed(scopes)): every scope that holds the name
\* publishes its idx, one after the other; the loop has no break
RECURSIVE Resolver_resolve_local(_, _, _, _)
Resolver_resolve_local(r, expr, name, idx) ==
    IF idx >= Len(r.scopes) THEN r
    ELSE Let([scope \in {r.scopes[Len(r.scopes) - idx]} |->
         Let([r1 \in {IF name.lexeme \in DOMAIN scope
                      THEN [r EXCEPT !.locals = Interpreter_resolve(@, expr, idx)]
                      ELSE r} |->
         Resolver_resolve_local(r1, expr, name, idx + 1)])])

RECURSIVE Resolver_resolve_statement(_, _), Resolver_resolve_expression(_, _)

\* Resolver.resolve(statements), and every other loop over a list of statements
RECURSIVE Resolver_resolve(_, _)
Resolver_resolve(r, statements) ==
    IF r.exc # "" \/ statements = <<>> THEN r
    ELSE Resolver_resolve(Resolver_resolve_statement(r, Head(statements)), Tail(statements))

RECURSIVE Resolver_resolve_expressions(_, _)
Resolver_resolve_expressions(r, expressions) ==
    IF r.exc # "" \/ expressions = <<>> THEN r
    ELSE Resolver_resolve_expressions(Resolver_resolve_expression(r, Head(expressions)),
                                      Tail(expressions))

RECURSIVE Resolver_declare_params(_, _)
Resolver_declare_params(r, params) ==
    IF params = <<>> THEN r
    ELSE Resolver_declare_params(Resolver_define(Resolver_declare(r, Head(params)), Head(params)),
                                 Tail(params))

\* with set_function_type(function_type): with new_scope(True): ...
\* _resolve_function that does not put the function type back
Resolver_resolve_function_keeping_type(r, function, function_type) ==
    Let([r1 \in {Resolver_begin_scope([r EXCEPT !.current_function = function_type])} |->
    Let([r2 \in {Resolver_declare_params(r1, function.params)} |->
    Let([r3 \in {Resolver_resolve(r2, function.body)} |->
    Resolver_end_scope(r3)])])])

Resolver_resolve_function(r, function, function_type) ==
    Let([existing_function_type \in {r.current_function} |->
    Let([r1 \in {Resolver_begin_scope([r EXCEPT !.current_function = function_type])} |->
    Let([r2 \in {Resolver_declare_params(r1, function.params)} |->
    Let([r3 \in {Resolver_resolve(r2, function.body)} |->
    [Resolver_end_scope(r3) EXCEPT !.current_function = existing_function_type]])])])])

RECURSIVE Resolver_resolve_methods(_, _)
Resolver_resolve_methods(r, methods) ==
    IF r.exc # "" \/ methods = <<>> THEN r
    ELSE Let([method \in {Head(methods)} |->
         Let([declaration \in {IF method.name.lexeme = "init" THEN "Initializer" ELSE "Method"} |->
         Resolver_resolve_methods(Resolver_resolve_function(r, method, declaration),
                                  Tail(methods))])])

Resolver_visit_block_stmt(r, stmt) ==
    Resolver_end_scope(Resolver_resolve(Resolver_begin_scope(r), stmt.statements))

\* visit_var_stmt defining the name before its initializer is resolved
Resolver_visit_var_stmt_defined_first(r, stmt) ==
    Let([r1 \in {Resolver_define(Resolver_declare(r, stmt.name), stmt.name)} |->
    IF ~isinstance(stmt.initializer, "Literal")
    THEN Resolver_resolve_expression(r1, stmt.initializer)
    ELSE r1])

Resolver_visit_var_stmt(r, stmt) ==
    Let([r1 \in {Resolver_declare(r, stmt.name)} |->
    Let([r2 \in {IF ~isinstance(stmt.initializer, "Literal")
                 THEN Resolver_resolve_expression(r1, stmt.initializer)
                 ELSE r1} |->
    IF r2.exc # "" THEN r2 ELSE Resolver_define(r2, stmt.name)])])

Resolver_visit_function_stmt(r, stmt) ==
    Resolver_resolve_function(Resolver_define(Resolver_declare(r, stmt.name), stmt.name),
                              stmt, "Function")

\* self._scopes[-1][expr.name.lexeme] subscripts the innermost dict: KeyError
\* when the name is not a key of it
Resolver_visit_variable_expr(r, expr) ==
    IF r.scopes # <<>> /\ expr.name.lexeme \notin DOMAIN r.scopes[Len(r.scopes)]
    THEN Resolver_raise(r, "KeyError")
    ELSE Let([r1 \in {IF r.scopes # <<>> /\ r.scopes[Len(r.scopes)][expr.name.lexeme] = FALSE
                      THEN Resolver_error(r, expr.name.line,
                                          "Can't read local variable in its own initializer.")
                      ELSE r} |->
         Resolver_resolve_local(r1, expr, expr.name, 0)])

Resolver_visit_if_stmt(r, stmt) ==
    Let([r1 \in {Resolver_resolve_expression(r, stmt.condition)} |->
    Let([r2 \in {IF r1.exc # "" THEN r1 ELSE Resolver_resolve_statement(r1, stmt.then_branch)} |->
    IF r2.exc # "" THEN r2 ELSE Resolver_resolve_statement(r2, stmt.else_branch)])])

Resolver_visit_return_stmt(r, stmt) ==
    Let([r1 \in {IF r.current_function = "NoFunction"
                 THEN Resolver_error(r, stmt.keyword.line, "Can't return from top-level code.")
                 ELSE r} |->
    IF stmt.value # None
    THEN Let([r2 \in {IF r1.current_function = "Initializer"
                      THEN Resolver_error(r1, stmt.keyword.line,
                                          "Can't return a value from an initializer.")
                      ELSE r1} |->
         Resolver_resolve_expression(r2, stmt.value)])
    ELSE r1])

Resolver_visit_while_stmt(r, stmt) ==
    Let([r1 \in {Resolver_resolve_expression(r, stmt.condition)} |->
    IF r1.exc # "" THEN r1 ELSE Resolver_resolve_statement(r1, stmt.body)])

\* with set_class_type(CLASS): ... with new_scope(has_superclass): ... with new_scope(True): ...
Resolver_visit_class_stmt(r, stmt) ==
    Let([existing_class \in {r.current_class} |->
    Let([r1 \in {Resolver_define(Resolver_declare([r EXCEPT !.current_class = "CLASS"], stmt.name),
                                 stmt.name)} |->
    Let([has_superclass \in {stmt.superclass # None} |->
    Let([r2 \in {IF has_superclass
                 THEN Let([r1a \in {IF stmt.name.lexeme = stmt.superclass.name.lexeme
                                    THEN Resolver_error(r1, stmt.name.line,
                                                        "A class can't inherit from itself.")
                                    ELSE r1} |->
                      Resolver_resolve_expression([r1a EXCEPT !.current_class = "SUBCLASS"],
                                                  stmt.superclass)])
                 ELSE r1} |->
    Let([r3 \in {IF r2.exc # "" THEN r2
                 ELSE Let([r2a \in {IF has_superclass
                                    THEN Resolver_scope_set(Resolver_begin_scope(r2), "super", TRUE)
                                    ELSE r2} |->
                      Let([r2b \in {Resolver_scope_set(Resolver_begin_scope(r2a), "this", TRUE)} |->
                      Let([r2c \in {Resolver_end_scope(Resolver_resolve_methods(r2b, stmt.methods))} |->
                      IF has_superclass THEN Resolver_end_scope(r2c) ELSE r2c])])])} |->
    [r3 EXCEPT !.current_class = existing_class]])])])])])

Resolver_visit_assign_expr(r, expr) ==
    Let([r1 \in {Resolver_resolve_expression(r, expr.value)} |->
    IF r1.exc # "" THEN r1 ELSE Resolver_resolve_local(r1, expr, expr.name, 0)])

Resolver_visit_binary_expr(r, expr) ==
    Let([r1 \in {Resolver_resolve_expression(r, expr.left)} |->
    IF r1.exc # "" THEN r1 ELSE Resolver_resolve_expression(r1, expr.right)])

Resolver_visit_call_expr(r, expr) ==
    Let([r1 \in {Resolver_resolve_expression(r, expr.callee)} |->
    Resolver_resolve_expressions(r1, expr.arguments)])

Resolver_visit_set_expr(r, expr) ==
    Let([r1 \in {Resolver_resolve_expression(r, expr.value)} |->
    IF r1.exc # "" THEN r1 ELSE Resolver_resolve_expression(r1, expr.instance)])

Resolver_visit_this_expr(r, expr) ==
    IF r.current_class = "NONE"
    THEN Resolver_error(r, expr.keyword.line, "Can't use 'this' outside of a class.")
    ELSE Resolver_resolve_local(r, expr, expr.keyword, 0)

Resolver_visit_super_expr(r, expr) ==
    Let([r1 \in {IF r.current_class = "NONE"
                 THEN Resolver_error(r, expr.keyword.line, "Can't use 'super' outside of a class.")
                 ELSE r} |->
    Let([r2 \in {IF r1.current_class # "SUBCLASS"
                 THEN Resolver_error(r1, expr.keyword.line,
                                     "Can't use 'super' in a class with no subclass.")
                 ELSE r1} |->
    Resolver_resolve_local(r2, expr, expr.keyword, 0)])])

\* statement.accept(self); an object that is no Stmt has no accept
Resolver_resolve_statement(r, stmt) ==
    IF ~IsNode(stmt) THEN Resolver_raise(r, "AttributeError")
    ELSE CASE stmt.k = "Block" -> Resolver_visit_block_stmt(r, stmt)
           [] stmt.k = "Var" -> Resolver_visit_var_stmt(r, stmt)
           [] stmt.k = "Function" -> Resolver_visit_function_stmt(r, stmt)
           [] stmt.k = "Expression" -> Resolver_resolve_expression(r, stmt.expression)
           [] stmt.k = "If" -> Resolver_visit_if_stmt(r, stmt)
           [] stmt.k = "Print" -> Resolver_resolve_expression(r, stmt.expression)
           [] stmt.k = "Return" -> Resolver_visit_return_stmt(r, stmt)
           [] stmt.k = "While" -> Resolver_visit_while_stmt(r, stmt)
           [] stmt.k = "Class" -> Resolver_visit_class_stmt(r, stmt)
           [] stmt.k = "Null" -> r

\* expression.accept(self); an object that is no Expr (LOX_NIL, None) has no accept
Resolver_resolve_expression(r, expr) ==
    IF ~IsNode(expr) THEN Resolver_raise(r, "AttributeError")
    ELSE CASE expr.k = "Variable" -> Resolver_visit_variable_expr(r, expr)
           [] expr.k = "Assign" -> Resolver_visit_assign_expr(r, expr)
           [] expr.k = "Binary" -> Resolver_visit_binary_expr(r, expr)
           [] expr.k = "Call" -> Resolver_visit_call_expr(r, expr)
           [] expr.k = "Grouping" -> Resolver_resolve_expression(r, expr.expression)
           [] expr.k = "Literal" -> r
           [] expr.k = "Logical" -> Resolver_visit_binary_expr(r, expr)
           [] expr.k = "Unary" -> Resolver_resolve_expression(r, expr.right)
           [] expr.k = "Get" -> Resolver_resolve_expression(r, expr.instance)
           [] expr.k = "Set" -> Resolver_visit_set_expr(r, expr)
           [] expr.k = "This" -> Resolver_visit_this_expr(r, expr)
           [] expr.k = "Super" -> Resolver_visit_super_expr(r, expr)

(***************************************************************************)
(* environment.py, lox_types.py, standard_library.py, interpreter.py.      *)
(*                                                                         *)
(* The interpreter record I holds the object graph by index: dicts (the    *)
(* _values dict objects), envs (Environment objects: which dict, which     *)
(* enclosing environment, 0 for None), functions, classes, instances; and  *)
(* _globals, _environment, _locals, what was written to sys.stdout, and    *)
(* log, a history of what was evaluated (it influences nothing).           *)
(* A value that is an object with identity is [t |-> its class, id |-> its *)
(* index].  An operation returns an outcome: how it ended (kind), the      *)
(* interpreter afterwards (I) and its value (v) or the exception's token   *)
(* and message.                                                            *)
(***************************************************************************)
Ok(I, v) == [kind |-> "ok", I |-> I, v |-> v, token |-> None, message |-> ""]

LoxRuntimeError(I, token, message) ==
    [kind |-> "LoxRuntimeError", I |-> I, v |-> None, token |-> token, message |-> message]

ReturnState(I, value) ==
    [kind |-> "ReturnState", I |-> I, v |-> value, token |-> None, message |-> ""]

PyException(I, exception) ==
    [kind |-> "PyException", I |-> I, v |-> None, token |-> None, message |-> exception]

\* the same outcome with another interpreter state
WithI(o, I) == [o EXCEPT !.I = I]

Log(I, event) == [I EXCEPT !.log = Append(@, event)]

Clock == [t |-> "Clock"]

\* Interpreter.__init__: _globals = make_standard_environment() is envs[1];
\* _environment = copy.copy(_globals) is envs[2], another Environment object
\* with the very same _values dict and the same _enclosing (None)
Interpreter_init ==
    [dicts |-> << ("clock" :> Clock) >>,
     envs |-> << [values |-> 1, enclosing |-> 0], [values |-> 1, enclosing |-> 0] >>,
     globals |-> 1, environment |-> 2, locals |-> EmptyDict,
     functions |-> <<>>, classes |-> <<>>, instances |-> <<>>,
     stdout |-> <<>>, log |-> <<>>, time |-> 0]

\* Environment(enclosing); the new object is envs[Len(envs)]
Environment(I, enclosing) ==
    [I EXCEPT !.dicts = Append(@, EmptyDict),
              !.envs = Append(@, [values |-> Len(I.dicts) + 1, enclosing |-> enclosing])]

Newest(objects) == Len(objects)

Environment_values(I, env) == I.dicts[I.envs[env].values]

Environment_define(I, env, name, value) ==
    [I EXCEPT !.dicts[I.envs[env].values] = DictSet(@, name, value)]

RECURSIVE Environment_get(_, _, _)
Environment_get(I, env, name) ==
    Let([value \in {DictGet(Environment_values(I, env), name.lexeme)} |->
    IF value # None THEN Ok(I, value)
    ELSE IF I.envs[env].enclosing # 0 THEN Environment_get(I, I.envs[env].enclosing, name)
    ELSE LoxRuntimeError(I, name, "Undefined variable '" \o name.lexeme \o "'.")])

RECURSIVE Environment_assign(_, _, _, _)
\* assign that makes a global of a name nothing on the chain holds
RECURSIVE Environment_assign_defining(_, _, _, _)
Environment_assign_defining(I, env, name, value) ==
    IF name.lexeme \in DOMAIN Environment_values(I, env)
    THEN Ok(Environment_define(I, env, name.lexeme, value), LOX_NIL)
    ELSE IF I.envs[env].enclosing # 0
    THEN Environment_assign_defining(I, I.envs[env].enclosing, name, value)
    ELSE Ok(Environment_define(I, env, name.lexeme, value), LOX_NIL)

Environment_assign(I, env, name, value) ==
    IF name.lexeme \in DOMAIN Environment_values(I, env)
    THEN Ok(Environment_define(I, env, name.lexeme, value), LOX_NIL)
    ELSE IF I.envs[env].enclosing # 0
    THEN Environment_assign(I, I.envs[env].enclosing, name, value)
    ELSE LoxRuntimeError(I, name, "Undefined variable '" \o name.lexeme \o "'.")

\* for _ in range(distance): env = env._enclosing.  0 is None; -1 says that
\* the loop went on from None (AttributeError)
RECURSIVE Environment_ancestor(_, _, _)
Environment_ancestor(I, env, distance) ==
    IF distance <= 0 THEN env
    ELSE IF env = 0 THEN -1
    ELSE Environment_ancestor(I, I.envs[env].enclosing, distance - 1)

Environment_get_at(I, env, distance, name) ==
    Let([ancestor \in {Environment_ancestor(I, env, distance)} |->
    IF ancestor <= 0 THEN PyException(I, "AttributeError")
    ELSE IF name \notin DOMAIN Environment_values(I, ancestor) THEN PyException(I, "KeyError")
    ELSE Ok(I, Environment_values(I, ancestor)[name])])

Environment_assign_at(I, env, distance, name, value) ==
    Let([ancestor \in {Environment_ancestor(I, env, distance)} |->
    IF ancestor <= 0 THEN PyException(I, "AttributeError")
    ELSE Ok(Environment_define(I, ancestor, name.lexeme, value), LOX_NIL)])

(***************************************************************************)
(* History only: which _values dict a chain walk from env ends in (0 when  *)
(* in none), by the test of get (a value that is not None) or of assign    *)
(* (the key is present); and the dict the resolution table designates for  *)
(* a node: the ancestor at the published distance, _globals without one.   *)
(***************************************************************************)
RECURSIVE HolderOf(_, _, _, _)
HolderOf(I, env, lexeme, reading) ==
    IF env = 0 THEN 0
    ELSE IF (IF reading THEN DictGet(Environment_values(I, env), lexeme) # None
                        ELSE lexeme \in DOMAIN Environment_values(I, env))
    THEN I.envs[env].values
    ELSE HolderOf(I, I.envs[env].enclosing, lexeme, reading)

DesignatedDict(I, expr) ==
    IF expr.id \in DOMAIN I.locals
    THEN Let([ancestor \in {Environment_ancestor(I, I.environment, I.locals[expr.id])} |->
         IF ancestor <= 0 THEN 0 ELSE I.envs[ancestor].values])
    ELSE I.envs[I.globals].values

(***************************************************************************)
(* Values                                                                  *)
(***************************************************************************)
LoxFunctionValue(id) == [t |-> "LoxFunction", id |-> id]

LoxClassValue(id) == [t |-> "LoxClass", id |-> id]

LoxInstanceValue(id) == [t |-> "LoxInstance", id |-> id]

\* LoxFunction(declaration, closure, is_initializer); the new object is functions[Len(functions)]
LoxFunction(I, declaration, closure, is_initializer) ==
    [I EXCEPT !.functions = Append(@, [declaration |-> declaration, closure |-> closure,
                                       is_initializer |-> is_initializer])]

LoxFunction_bind(I, function, instance) ==
    Let([I1 \in {Environment(I, I.functions[function].closure)} |->
    Let([environment \in {Newest(I1.envs)} |->
    Let([I2 \in {Environment_define(I1, environment, "this", instance)} |->
    LoxFunction(I2, I.functions[function].declaration, environment,
                I.functions[function].is_initializer)])])])

\* 0 is None
RECURSIVE LoxClass_find_method(_, _, _)
LoxClass_find_method(I, class, name) ==
    IF name \in DOMAIN I.classes[class].methods THEN I.classes[class].methods[name]
    ELSE IF I.classes[class].superclass # 0
    THEN LoxClass_find_method(I, I.classes[class].superclass, name)
    ELSE 0

LoxClass_arity(I, class) ==
    Let([initializer \in {LoxClass_find_method(I, class, "init")} |->
    IF initializer = 0 THEN 0 ELSE Len(I.functions[initializer].declaration.params)])

arity(I, callable) ==
    CASE callable.t = "LoxFunction" -> Len(I.functions[callable.id].declaration.params)
      [] callable.t = "LoxClass" -> LoxClass_arity(I, callable.id)
      [] callable.t = "Clock" -> 0

\* str(float): the text before and after the point; at most 16 digits after it
RECURSIVE FractionDigits(_, _, _)
FractionDigits(r, d, k) ==
    IF r = 0 \/ k = 0 THEN ""
    ELSE ToString((10 * r) \div d) \o FractionDigits((10 * r) % d, d, k - 1)

str_float(number) ==
    Let([a \in {Abs(number.n)} |->
    [whole |-> (IF number.n < 0 THEN "-" ELSE "") \o ToString(a \div number.d),
     fraction |-> IF a % number.d = 0 THEN "0" ELSE FractionDigits(a % number.d, number.d, 16)]])

\* __str__ of the classes of lox_types.py and of Clock
str(I, object) ==
    CASE object.t = "LoxString" -> object.value
      [] object.t = "LoxBool" -> IF object.value THEN "True" ELSE "False"
      [] object.t = "LoxFunction" -> "<fn " \o I.functions[object.id].declaration.name.lexeme \o ">"
      [] object.t = "LoxClass" -> "Class " \o I.classes[object.id].name
      [] object.t = "LoxInstance" -> I.classes[I.instances[object.id].class].name \o " instance"
      [] object.t = "Clock" -> "<native fn>"
      [] OTHER -> "LoxObject."

stringify(I, lox_object) ==
    IF lox_object.t = "LoxNil" THEN "nil"
    ELSE IF lox_object.t = "LoxNumber"
    THEN Let([text \in {str_float(lox_object)} |->
         IF text.fraction = "0" THEN text.whole ELSE text.whole \o "." \o text.fraction])
    ELSE str(I, lox_object)

is_truthy(lox_object) ==
    IF lox_object.t = "LoxNil" THEN FALSE
    ELSE IF lox_object.t = "LoxBool" THEN lox_object.value
    ELSE TRUE

\* equals of LoxString, LoxNumber, LoxBool; LoxObject.equals (self is other) otherwise
equals(left, right) ==
    IF left.t \in {"LoxString", "LoxBool"} THEN right.t = left.t /\ right.value = left.value
    ELSE IF left.t = "LoxNumber" THEN right.t = "LoxNumber" /\ right.n = left.n /\ right.d = left.d
    ELSE left = right

is_equal(left, right) ==
    IF left.t = "LoxNil" /\ right.t = "LoxNil" THEN TRUE
    ELSE IF left.t = "LoxNil" THEN FALSE
    ELSE equals(left, right)

(***************************************************************************)
(* interpreter.py: Interpreter, and the call methods of lox_types.py.      *)
(***************************************************************************)
RECURSIVE Interpreter_execute(_, _), Interpreter_evaluate(_, _)

\* for statement in statements: self._execute(statement)
RECURSIVE Interpreter_execute_all(_, _)
Interpreter_execute_all(I, statements) ==
    IF statements = <<>> THEN Ok(I, LOX_NIL)
    ELSE Let([o \in {Interpreter_execute(I, Head(statements))} |->
         IF o.kind # "ok" THEN o ELSE Interpreter_execute_all(o.I, Tail(statements))])

\* execute_block without the finally: the environment is put back after normal completion only
Interpreter_execute_block_without_finally(I, statements, environment) ==
    Let([previous \in {I.environment} |->
    Let([o \in {Interpreter_execute_all([I EXCEPT !.environment = environment], statements)} |->
    Let([I1 \in {IF o.kind = "ok" THEN [o.I EXCEPT !.environment = previous] ELSE o.I} |->
    WithI(o, Log(I1, [ev |-> "left", what |-> "execute_block", how |-> o.kind,
                      before |-> previous, after |-> I1.environment]))])])])

\* try: ... finally: self._environment = previous -- on every way out
Interpreter_execute_block(I, statements, environment) ==
    Let([previous \in {I.environment} |->
    Let([o \in {Interpreter_execute_all([I EXCEPT !.environment = environment], statements)} |->
    Let([I1 \in {[o.I EXCEPT !.environment = previous]} |->
    WithI(o, Log(I1, [ev |-> "left", what |-> "execute_block", how |-> o.kind,
                      before |-> previous, after |-> I1.environment]))])])])

Interpreter_visit_block_stmt(I, stmt) ==
    Let([I1 \in {Environment(I, I.environment)} |->
    Interpreter_execute_block(I1, stmt.statements, Newest(I1.envs))])

RECURSIVE DefineParams(_, _, _, _, _)
DefineParams(I, env, params, arguments, i) ==
    IF i > Len(params) THEN I
    ELSE DefineParams(Environment_define(I, env, params[i].lexeme, arguments[i]),
                      env, params, arguments, i + 1)

LoxFunction_call(I, function, arguments) ==
    Let([f \in {I.functions[function]} |->
    Let([I1 \in {Environment(I, f.closure)} |->
    Let([env \in {Newest(I1.envs)} |->
    Let([I2 \in {DefineParams(I1, env, f.declaration.params, arguments, 1)} |->
    Let([o \in {Interpreter_execute_block(I2, f.declaration.body, env)} |->
    IF o.kind = "ReturnState"
    THEN IF f.is_initializer THEN Environment_get_at(o.I, f.closure, 0, "this")
         ELSE Ok(o.I, o.v)
    ELSE IF o.kind # "ok" THEN o
    ELSE IF f.is_initializer THEN Environment_get_at(o.I, f.closure, 0, "this")
    ELSE Ok(o.I, LOX_NIL)])])])])])

\* LoxClass.call without the initializer: the instance is returned as it was created
LoxClass_call_without_initializer(I, class, arguments) ==
    Ok([I EXCEPT !.instances = Append(@, [class |-> class, fields |-> EmptyDict])],
       LoxInstanceValue(Len(I.instances) + 1))

LoxClass_call(I, class, arguments) ==
    Let([I1 \in {[I EXCEPT !.instances = Append(@, [class |-> class, fields |-> EmptyDict])]} |->
    Let([instance \in {LoxInstanceValue(Newest(I1.instances))} |->
    Let([initializer \in {LoxClass_find_method(I1, class, "init")} |->
    IF initializer # 0
    THEN Let([I2 \in {LoxFunction_bind(I1, initializer, instance)} |->
         Let([o \in {LoxFunction_call(I2, Newest(I2.functions), arguments)} |->
         IF o.kind # "ok" THEN o ELSE Ok(o.I, instance)])])
    ELSE Ok(I1, instance)])])])

call(I, callable, arguments) ==
    CASE callable.t = "LoxFunction" -> LoxFunction_call(I, callable.id, arguments)
      [] callable.t = "LoxClass" -> LoxClass_call(I, callable.id, arguments)
      \* Clock.call, time.time(): the clock has moved on at every call
      [] callable.t = "Clock" -> Ok([I EXCEPT !.time = @ + 1], LoxNumber(I.time, 1))

LoxInstance_get(I, instance, name) ==
    Let([result \in {DictGet(I.instances[instance].fields, name.lexeme)} |->
    Let([method \in {LoxClass_find_method(I, I.instances[instance].class, name.lexeme)} |->
    IF result # None THEN Ok(I, result)
    ELSE IF method # 0
    THEN Let([I1 \in {LoxFunction_bind(I, method, LoxInstanceValue(instance))} |->
         Ok(I1, LoxFunctionValue(Newest(I1.functions)))])
    ELSE \* raise RuntimeError(...): Python's builtin exception, not LoxRuntimeError
         PyException(Log(I, [ev |-> "undefined property", name |-> name]), "RuntimeError")])])

LoxInstance_set(I, instance, name, value) ==
    [I EXCEPT !.instances[instance].fields = DictSet(@, name.lexeme, value)]

Interpreter_visit_print_stmt(I, stmt) ==
    Let([o \in {Interpreter_evaluate(I, stmt.expression)} |->
    IF o.kind # "ok" THEN o
    ELSE Ok([o.I EXCEPT !.stdout = Append(@, stringify(o.I, o.v))], LOX_NIL)])

Interpreter_visit_function_stmt(I, stmt) ==
    Let([I1 \in {LoxFunction(I, stmt, I.environment, FALSE)} |->
    Ok(Environment_define(I1, I1.environment, stmt.name.lexeme,
                          LoxFunctionValue(Newest(I1.functions))), LOX_NIL)])

Interpreter_visit_var_stmt(I, stmt) ==
    Let([initializer \in {stmt.initializer} |->
    Let([o \in {IF isinstance(initializer, "Literal") /\ initializer.value.t = "LoxNil"
                THEN Ok(I, LOX_NIL)
                ELSE Interpreter_evaluate(I, initializer)} |->
    IF o.kind # "ok" THEN o
    ELSE Ok(Environment_define(o.I, o.I.environment, stmt.name.lexeme, o.v), LOX_NIL)])])

Interpreter_visit_if_stmt(I, stmt) ==
    Let([o \in {Interpreter_evaluate(I, stmt.condition)} |->
    IF o.kind # "ok" THEN o
    ELSE IF is_truthy(o.v) THEN Interpreter_execute(o.I, stmt.then_branch)
    ELSE Interpreter_execute(o.I, stmt.else_branch)])

RECURSIVE Interpreter_visit_while_stmt(_, _)
Interpreter_visit_while_stmt(I, stmt) ==
    Let([o \in {Interpreter_evaluate(I, stmt.condition)} |->
    IF o.kind # "ok" THEN o
    ELSE IF ~is_truthy(o.v) THEN Ok(o.I, LOX_NIL)
    ELSE Let([b \in {Interpreter_execute(o.I, stmt.body)} |->
         IF b.kind # "ok" THEN b ELSE Interpreter_visit_while_stmt(b.I, stmt)])])

\* methods[method.name.lexeme] = LoxFunction(method, self._environment, is_init)
RECURSIVE Interpreter_class_methods(_, _, _)
Interpreter_class_methods(I, methods, dict) ==
    IF methods = <<>> THEN [I |-> I, methods |-> dict]
    ELSE Let([method \in {Head(methods)} |->
         Let([I1 \in {LoxFunction(I, method, I.environment, method.name.lexeme = "init")} |->
         Interpreter_class_methods(I1, Tail(methods),
                                   DictSet(dict, method.name.lexeme, Newest(I1.functions)))])])

\* with self.new_environment(use_new): on entry
Interpreter_new_environment_enter(I, use_new) ==
    IF use_new THEN Let([I1 \in {Environment(I, I.environment)} |->
                    [I1 EXCEPT !.environment = Newest(I1.envs)]])
    ELSE I

\* ... and in its finally clause
Interpreter_new_environment_exit(I, use_new) ==
    IF use_new THEN [I EXCEPT !.environment = I.envs[I.environment].enclosing] ELSE I

Interpreter_visit_class_stmt(I, stmt) ==
    Let([s \in {IF stmt.superclass # None
                THEN Let([o \in {Interpreter_evaluate(I, stmt.superclass)} |->
                     IF o.kind # "ok" THEN o
                     ELSE IF o.v.t # "LoxClass"
                     THEN LoxRuntimeError(o.I, stmt.superclass.name, "Superclass must be a class.")
                     ELSE o])
                ELSE Ok(I, None)} |->
    IF s.kind # "ok" THEN s
    ELSE Let([superclass \in {s.v} |->
         Let([before \in {s.I.environment} |->
         Let([I1 \in {Environment_define(s.I, s.I.environment, stmt.name.lexeme, LOX_NIL)} |->
         Let([I2 \in {Interpreter_new_environment_enter(I1, superclass # None)} |->
             \* define("super", superclass) runs whether or not there is a superclass
         Let([I3 \in {Environment_define(I2, I2.environment, "super", superclass)} |->
         Let([m \in {Interpreter_class_methods(I3, stmt.methods, EmptyDict)} |->
         Let([I4 \in {[m.I EXCEPT !.classes =
                          Append(@, [name |-> stmt.name.lexeme,
                                     superclass |-> IF superclass = None THEN 0 ELSE superclass.id,
                                     methods |-> m.methods])]} |->
         Let([klass \in {LoxClassValue(Newest(I4.classes))} |->
         Let([I5 \in {Interpreter_new_environment_exit(I4, superclass # None)} |->
         Let([I6 \in {Log(I5, [ev |-> "left", what |-> "new_environment", how |-> "ok",
                               before |-> before, after |-> I5.environment])} |->
         Environment_assign(I6, I6.environment, stmt.name, klass)])])])])])])])])])])])

Interpreter_visit_return_stmt(I, stmt) ==
    IF stmt.value # None
    THEN Let([o \in {Interpreter_evaluate(I, stmt.value)} |->
         IF o.kind # "ok" THEN o ELSE ReturnState(o.I, o.v)])
    ELSE ReturnState(I, LOX_NIL)

RECURSIVE Interpreter_evaluate_arguments(_, _, _)
Interpreter_evaluate_arguments(I, arguments, args) ==
    IF arguments = <<>> THEN Ok(I, args)
    ELSE Let([o \in {Interpreter_evaluate(I, Head(arguments))} |->
         IF o.kind # "ok" THEN o
         ELSE Interpreter_evaluate_arguments(o.I, Tail(arguments), Append(args, o.v))])

\* visit_call_expr with the arity compared before the arguments are evaluated
Interpreter_visit_call_expr_arity_first(I, expr) ==
    Let([function \in {Interpreter_evaluate(I, expr.callee)} |->
    IF function.kind # "ok" THEN function
    ELSE IF function.v.t \notin {"LoxFunction", "LoxClass", "Clock"}
    THEN LoxRuntimeError(function.I, expr.paren, "Can only call functions and classes.")
    ELSE IF Len(expr.arguments) # arity(function.I, function.v)
    THEN LoxRuntimeError(function.I, expr.paren,
             "Expected " \o ToString(arity(function.I, function.v)) \o " args but got "
                 \o ToString(Len(expr.arguments)) \o ".")
    ELSE Let([args \in {Interpreter_evaluate_arguments(function.I, expr.arguments, <<>>)} |->
         IF args.kind # "ok" THEN args ELSE call(args.I, function.v, args.v)])])

Interpreter_visit_call_expr(I, expr) ==
    Let([function \in {Interpreter_evaluate(I, expr.callee)} |->
    IF function.kind # "ok" THEN function
    ELSE IF function.v.t \notin {"LoxFunction", "LoxClass", "Clock"}
    THEN LoxRuntimeError(function.I, expr.paren, "Can only call functions and classes.")
    ELSE Let([args \in {Interpreter_evaluate_arguments(function.I, expr.arguments, <<>>)} |->
         IF args.kind # "ok" THEN args
         ELSE IF Len(args.v) # arity(args.I, function.v)
         THEN LoxRuntimeError(args.I, expr.paren,
                  "Expected " \o ToString(arity(args.I, function.v)) \o " args but got "
                      \o ToString(Len(args.v)) \o ".")
         ELSE call(args.I, function.v, args.v)])])

Interpreter_visit_get_expr(I, expr) ==
    Let([instance \in {Interpreter_evaluate(I, expr.instance)} |->
    IF instance.kind # "ok" THEN instance
    ELSE IF instance.v.t = "LoxInstance" THEN LoxInstance_get(instance.I, instance.v.id, expr.name)
    ELSE LoxRuntimeError(instance.I, expr.name, "Only instances have properties.")])

Interpreter_visit_set_expr(I, expr) ==
    Let([instance \in {Interpreter_evaluate(I, expr.instance)} |->
    IF instance.kind # "ok" THEN instance
    ELSE IF instance.v.t # "LoxInstance"
    THEN LoxRuntimeError(instance.I, expr.name, "Only instances have fields.")
    ELSE Let([value \in {Interpreter_evaluate(instance.I, expr.value)} |->
         IF value.kind # "ok" THEN value
         ELSE Ok(LoxInstance_set(value.I, instance.v.id, expr.name, value.v), value.v)])])

\* visit_logical_expr with both operands evaluated before one is chosen
Interpreter_visit_logical_expr_eager(I, expr) ==
    Let([left \in {Interpreter_evaluate(I, expr.left)} |->
    IF left.kind # "ok" THEN left
    ELSE Let([right \in {Interpreter_evaluate(left.I, expr.right)} |->
         IF right.kind # "ok" THEN right
         ELSE IF expr.operator.token_type = "OR" /\ is_truthy(left.v) THEN Ok(right.I, left.v)
         ELSE IF expr.operator.token_type # "OR" /\ ~is_truthy(left.v) THEN Ok(right.I, left.v)
         ELSE right])])

Interpreter_visit_logical_expr(I, expr) ==
    Let([left \in {Interpreter_evaluate(I, expr.left)} |->
    IF left.kind # "ok" THEN left
    ELSE IF expr.operator.token_type = "OR" /\ is_truthy(left.v) THEN left
    ELSE IF expr.operator.token_type # "OR" /\ ~is_truthy(left.v) THEN left
    ELSE Interpreter_evaluate(left.I, expr.right)])

check_is_numeric(I, token, lox_object) ==
    IF lox_object.t # "LoxNumber" THEN LoxRuntimeError(I, token, "Operator must be a number.")
    ELSE Ok(I, lox_object)

check_numeric_operands(I, token, left, right) ==
    Let([l \in {check_is_numeric(I, token, left)} |->
    IF l.kind # "ok" THEN l ELSE check_is_numeric(I, token, right)])

Interpreter_visit_unary_expr(I, expr) ==
    Let([right \in {Interpreter_evaluate(I, expr.right)} |->
    IF right.kind # "ok" THEN right
    ELSE IF expr.operator.token_type = "MINUS"
    THEN Let([c \in {check_is_numeric(right.I, expr.operator, right.v)} |->
         IF c.kind # "ok" THEN c ELSE Ok(right.I, LoxNumber(-right.v.n, right.v.d))])
    ELSE IF expr.operator.token_type = "BANG" THEN Ok(right.I, LoxBool(~is_truthy(right.v)))
    ELSE Ok(right.I, LOX_NIL)])

\* the arithmetic and comparisons of Python floats, on fractions
Interpreter_visit_binary_expr(I, expr) ==
    Let([left \in {Interpreter_evaluate(I, expr.left)} |->
    Let([right \in {Interpreter_evaluate(left.I, expr.right)} |->
    Let([op_type \in {expr.operator.token_type} |->
    IF left.kind # "ok" THEN left
    ELSE IF right.kind # "ok" THEN right
    ELSE IF op_type = "PLUS"
    THEN IF left.v.t = "LoxNumber" /\ right.v.t = "LoxNumber"
         THEN Ok(right.I, LoxNumber(left.v.n * right.v.d + right.v.n * left.v.d,
                                    left.v.d * right.v.d))
         ELSE IF left.v.t = "LoxString" /\ right.v.t = "LoxString"
         THEN Ok(right.I, LoxString(left.v.value \o right.v.value))
         ELSE LoxRuntimeError(right.I, expr.operator, "Args must be either Number or String.")
    ELSE IF op_type \in {"MINUS", "SLASH", "STAR", "GREATER", "GREATER_EQUAL", "LESS", "LESS_EQUAL"}
    THEN Let([c \in {check_numeric_operands(right.I, expr.operator, left.v, right.v)} |->
         Let([l \in {left.v} |->
         Let([r \in {right.v} |->
         IF c.kind # "ok" THEN c
         ELSE CASE op_type = "MINUS" -> Ok(c.I, LoxNumber(l.n * r.d - r.n * l.d, l.d * r.d))
                [] op_type = "SLASH" ->
                      \* Python's float division
                      IF r.n = 0 THEN PyException(c.I, "ZeroDivisionError")
                      ELSE Ok(c.I, LoxNumber((IF r.n < 0 THEN -1 ELSE 1) * l.n * r.d,
                                             l.d * Abs(r.n)))
                [] op_type = "STAR" -> Ok(c.I, LoxNumber(l.n * r.n, l.d * r.d))
                [] op_type = "GREATER" -> Ok(c.I, LoxBool(l.n * r.d > r.n * l.d))
                [] op_type = "GREATER_EQUAL" -> Ok(c.I, LoxBool(l.n * r.d >= r.n * l.d))
                [] op_type = "LESS" -> Ok(c.I, LoxBool(l.n * r.d < r.n * l.d))
                [] op_type = "LESS_EQUAL" -> Ok(c.I, LoxBool(l.n * r.d <= r.n * l.d))])])])
    ELSE IF op_type = "BANG_EQUAL" THEN Ok(right.I, LoxBool(~is_equal(left.v, right.v)))
    ELSE IF op_type = "EQUAL_EQUAL" THEN Ok(right.I, LoxBool(is_equal(left.v, right.v)))
    ELSE Ok(right.I, LOX_NIL)])])])

\* return self._environment.get(expr.name): a walk up the chain, _locals is not consulted
Interpreter_visit_variable_expr(I, expr) ==
    Let([o \in {Environment_get(I, I.environment, expr.name)} |->
    WithI(o, Log(o.I, [ev |-> "variable", id |-> expr.id, how |-> o.kind,
                       held |-> HolderOf(I, I.environment, expr.name.lexeme, TRUE),
                       designated |-> DesignatedDict(I, expr)]))])

\* self._environment.assign(expr.name, value): a walk up the chain as well
Interpreter_visit_assign_expr(I, expr) ==
    Let([value \in {Interpreter_evaluate(I, expr.value)} |->
    IF value.kind # "ok" THEN value
    ELSE Let([o \in {Environment_assign(value.I, value.I.environment, expr.name, value.v)} |->
         Let([I1 \in {Log(o.I, [ev |-> "assign", id |-> expr.id, how |-> o.kind,
                                held |-> HolderOf(value.I, value.I.environment, expr.name.lexeme, FALSE),
                                designated |-> DesignatedDict(value.I, expr)])} |->
         IF o.kind # "ok" THEN WithI(o, I1) ELSE Ok(I1, value.v)])])])

Interpreter_look_up_variable(I, name, expr) ==
    IF expr.id \in DOMAIN I.locals
    THEN Environment_get_at(I, I.environment, I.locals[expr.id], name.lexeme)
    ELSE Environment_get(I, I.globals, name)

\* bound is the environment that holds "this" nearest to the current one: the one bind() made
\* for the method that is executing
Interpreter_visit_this_expr(I, expr) ==
    Let([o \in {Interpreter_look_up_variable(I, expr.keyword, expr)} |->
    WithI(o, Log(o.I, [ev |-> "this", id |-> expr.id, how |-> o.kind,
                       held |-> DesignatedDict(I, expr),
                       bound |-> HolderOf(I, I.environment, "this", TRUE)]))])

Interpreter_visit_super_expr(I, expr) ==
    IF expr.id \notin DOMAIN I.locals THEN PyException(I, "AssertionError")
    ELSE Let([distance \in {I.locals[expr.id]} |->
         Let([superclass \in {Environment_get_at(I, I.environment, distance, "super")} |->
         Let([instance \in {Environment_get_at(I, I.environment, distance - 1, "this")} |->
         IF superclass.kind # "ok" THEN superclass
         ELSE IF superclass.v.t # "LoxClass" THEN PyException(I, "AssertionError")
         ELSE IF instance.kind # "ok" THEN instance
         ELSE IF instance.v.t # "LoxInstance" THEN PyException(I, "AssertionError")
         ELSE Let([method \in {LoxClass_find_method(I, superclass.v.id, expr.method.lexeme)} |->
              IF method = 0
              THEN LoxRuntimeError(Log(I, [ev |-> "undefined property", name |-> expr.method]),
                       expr.method, "Undefined property " \o expr.method.lexeme \o ".")
              ELSE Let([I1 \in {LoxFunction_bind(I, method, instance.v)} |->
                   Ok(Log(I1, [ev |-> "super", id |-> expr.id, how |-> "ok",
                               superclass |-> superclass.v, instance |-> instance.v,
                               lexical |-> HolderOf(I, I.environment, "super", TRUE),
                               bound |-> HolderOf(I, I.environment, "this", TRUE)]),
                      LoxFunctionValue(Newest(I1.functions)))])])])])])

\* expr.accept(self); an object that is no Expr has no accept
Interpreter_evaluate(I, expr) ==
    IF ~IsNode(expr) THEN PyException(I, "AttributeError")
    ELSE CASE expr.k = "Literal" -> Ok(I, expr.value)
           [] expr.k = "Grouping" -> Interpreter_evaluate(I, expr.expression)
           [] expr.k = "Variable" -> Interpreter_visit_variable_expr(I, expr)
           [] expr.k = "Assign" -> Interpreter_visit_assign_expr(I, expr)
           [] expr.k = "Binary" -> Interpreter_visit_binary_expr(I, expr)
           [] expr.k = "Logical" -> Interpreter_visit_logical_expr(I, expr)
           [] expr.k = "Unary" -> Interpreter_visit_unary_expr(I, expr)
           [] expr.k = "Call" -> Interpreter_visit_call_expr(I, expr)
           [] expr.k = "Get" -> Interpreter_visit_get_expr(I, expr)
           [] expr.k = "Set" -> Interpreter_visit_set_expr(I, expr)
           [] expr.k = "This" -> Interpreter_visit_this_expr(I, expr)
           [] expr.k = "Super" -> Interpreter_visit_super_expr(I, expr)

\* stmt.accept(self); None has no accept
Interpreter_execute(I, stmt) ==
    IF ~IsNode(stmt) THEN PyException(I, "AttributeError")
    ELSE CASE stmt.k = "Block" -> Interpreter_visit_block_stmt(I, stmt)
           [] stmt.k = "Print" -> Interpreter_visit_print_stmt(I, stmt)
           [] stmt.k = "Expression" ->
                 Let([o \in {Interpreter_evaluate(I, stmt.expression)} |->
                 IF o.kind # "ok" THEN o ELSE Ok(o.I, LOX_NIL)])
           [] stmt.k = "Function" -> Interpreter_visit_function_stmt(I, stmt)
           [] stmt.k = "Var" -> Interpreter_visit_var_stmt(I, stmt)
           [] stmt.k = "If" -> Interpreter_visit_if_stmt(I, stmt)
           [] stmt.k = "While" -> Interpreter_visit_while_stmt(I, stmt)
           [] stmt.k = "Class" -> Interpreter_visit_class_stmt(I, stmt)
           [] stmt.k = "Null" -> Ok(I, LOX_NIL)
           [] stmt.k = "Return" -> Interpreter_visit_return_stmt(I, stmt)

(***************************************************************************)
(* lox.py and scripts/pylox.py: the driver.                                *)
(*                                                                         *)
(* pc is where the process stands: "main" (started, argv not yet looked    *)
(* at), "prompt" (run_prompt waits in input()), "scan", "parse",           *)
(* "resolve", "interpret" (run() is in the loop of that stage),            *)
(* "returned" (run() has returned to run_file or run_prompt), "exited"     *)
(* (exit(exit_code) was called), "died" (an exception nobody catches       *)
(* reached the top: traceback, exit status 1).                             *)
(*                                                                         *)
(* f_locals holds the locals of a function that is followed step by step:  *)
(* of Parser._function (FunctionSpec below) the kind, name and parameters  *)
(* it has so far, of main() of scripts/test_ast_printer.py (PrinterSpec)   *)
(* its expression.                                                         *)
(***************************************************************************)
VARIABLES pc, mode, script, scanner, parser, statements, resolver, k,
          handler, interpreter, exit_code, lines, exception, run_log, f_locals

vars == <<pc, mode, script, scanner, parser, statements, resolver, k,
          handler, interpreter, exit_code, lines, exception, run_log, f_locals>>

\* history of the current run(): the errors each stage reported, how many
\* top-level statements the resolver and the interpreter were given
RunLogInit == [scan_errors |-> 0, parse_errors |-> 0, resolve_errors |-> 0,
               runtime_errors |-> 0, resolved |-> 0, executed |-> 0]

Reported(h0, h1) == Len(h1.stderr) - Len(h0.stderr)

tokens_is_empty(tokens) == Len(tokens) = 1 /\ tokens[1].token_type = "EOF"

\* run() testing the wrong flag
run_must_return_on_runtime_error(h) == h.HAD_RUNTIME_ERROR

\* if LoxErrorHandler.HAD_ERROR: return -- lox.py lines 38 and 43
run_must_return(h) == h.HAD_ERROR

\* run_file with the two exits the wrong way round
run_file_exit_code_swapped(h) ==
    IF h.HAD_ERROR = TRUE THEN 70
    ELSE IF h.HAD_RUNTIME_ERROR = TRUE THEN 65
    ELSE 0

\* run_file after run(script), and main's exit(0) behind it
run_file_exit_code(h) ==
    IF h.HAD_ERROR = TRUE THEN 65
    ELSE IF h.HAD_RUNTIME_ERROR = TRUE THEN 70
    ELSE 0

\* ---- programs ----
(***************************************************************************)
(* The programs the process is run on, by name: Files holds the scripts    *)
(* run_file reads from a file, Lines the lines run_prompt reads from the   *)
(* prompt.  Each is source text, a sequence of characters; the text is     *)
(* shown above it.                                                         *)
(***************************************************************************)

Files ==
    [
    \*   print 1 + 2 * 3;
    arithmetic |->
        <<"p", "r", "i", "n", "t", " ", "1", " ", "+", " ", "2", " ", "*", " ", "3", ";">>,

    \*   fun makeCounter() {
    \*     var i = 0;
    \*     fun count() { i = i + 1; print i; }
    \*     return count;
    \*   }
    \*   var c = makeCounter();
    \*   c(); c(); c();
    counter |->
        <<"f", "u", "n", " ", "m", "a", "k", "e", "C", "o", "u", "n", "t", "e", "r", "(", ")",
          " ", "{", "\n", " ", " ", "v", "a", "r", " ", "i", " ", "=", " ", "0", ";", "\n", " ",
          " ", "f", "u", "n", " ", "c", "o", "u", "n", "t", "(", ")", " ", "{", " ", "i", " ",
          "=", " ", "i", " ", "+", " ", "1", ";", " ", "p", "r", "i", "n", "t", " ", "i", ";",
          " ", "}", "\n", " ", " ", "r", "e", "t", "u", "r", "n", " ", "c", "o", "u", "n", "t",
          ";", "\n", "}", "\n", "v", "a", "r", " ", "c", " ", "=", " ", "m", "a", "k", "e", "C",
          "o", "u", "n", "t", "e", "r", "(", ")", ";", "\n", "c", "(", ")", ";", " ", "c", "(",
          ")", ";", " ", "c", "(", ")", ";">>,

    \*   class A { hello() { print "A"; } }
    \*   class B < A { hello() { super.hello(); print "B"; } }
    \*   B().hello();
    inherit |->
        <<"c", "l", "a", "s", "s", " ", "A", " ", "{", " ", "h", "e", "l", "l", "o", "(", ")",
          " ", "{", " ", "p", "r", "i", "n", "t", " ", "\"", "A", "\"", ";", " ", "}", " ", "}",
          "\n", "c", "l", "a", "s", "s", " ", "B", " ", "<", " ", "A", " ", "{", " ", "h", "e",
          "l", "l", "o", "(", ")", " ", "{", " ", "s", "u", "p", "e", "r", ".", "h", "e", "l",
          "l", "o", "(", ")", ";", " ", "p", "r", "i", "n", "t", " ", "\"", "B", "\"", ";", " ",
          "}", " ", "}", "\n", "B", "(", ")", ".", "h", "e", "l", "l", "o", "(", ")", ";">>,

    \*   class Point {
    \*     init(x, y) { this.x = x; this.y = y; }
    \*   }
    \*   var p = Point(3, 4);
    \*   print p.x; print p.y;
    point |->
        <<"c", "l", "a", "s", "s", " ", "P", "o", "i", "n", "t", " ", "{", "\n", " ", " ", "i",
          "n", "i", "t", "(", "x", ",", " ", "y", ")", " ", "{", " ", "t", "h", "i", "s", ".",
          "x", " ", "=", " ", "x", ";", " ", "t", "h", "i", "s", ".", "y", " ", "=", " ", "y",
          ";", " ", "}", "\n", "}", "\n", "v", "a", "r", " ", "p", " ", "=", " ", "P", "o", "i",
          "n", "t", "(", "3", ",", " ", "4", ")", ";", "\n", "p", "r", "i", "n", "t", " ", "p",
          ".", "x", ";", " ", "p", "r", "i", "n", "t", " ", "p", ".", "y", ";">>,

    \*   var a = "outer";
    \*   { var a = a; }
    own_init |->
        <<"v", "a", "r", " ", "a", " ", "=", " ", "\"", "o", "u", "t", "e", "r", "\"", ";", "\n",
          "{", " ", "v", "a", "r", " ", "a", " ", "=", " ", "a", ";", " ", "}">>,

    \*   fun f() { var x = x + 1; }
    \*   print 1;
    own_init_fun |->
        <<"f", "u", "n", " ", "f", "(", ")", " ", "{", " ", "v", "a", "r", " ", "x", " ", "=",
          " ", "x", " ", "+", " ", "1", ";", " ", "}", "\n", "p", "r", "i", "n", "t", " ", "1",
          ";">>,

    \*   print "a" + 1;
    type_error |->
        <<"p", "r", "i", "n", "t", " ", "\"", "a", "\"", " ", "+", " ", "1", ";">>,

    \*   print 1;
    \*   print -"a";
    \*   print 2;
    error_midway |->
        <<"p", "r", "i", "n", "t", " ", "1", ";", "\n", "p", "r", "i", "n", "t", " ", "-", "\"",
          "a", "\"", ";", "\n", "p", "r", "i", "n", "t", " ", "2", ";">>,

    \*   print 1 / 0;
    \*   print 2;
    div_zero |->
        <<"p", "r", "i", "n", "t", " ", "1", " ", "/", " ", "0", ";", "\n", "p", "r", "i", "n",
          "t", " ", "2", ";">>,

    \*   print 7 / 2; print 6 / 3; print 0 / 5;
    div |->
        <<"p", "r", "i", "n", "t", " ", "7", " ", "/", " ", "2", ";", " ", "p", "r", "i", "n",
          "t", " ", "6", " ", "/", " ", "3", ";", " ", "p", "r", "i", "n", "t", " ", "0", " ",
          "/", " ", "5", ";">>,

    \*   fun f() { return; }
    \*   print f();
    return_bare |->
        <<"f", "u", "n", " ", "f", "(", ")", " ", "{", " ", "r", "e", "t", "u", "r", "n", ";",
          " ", "}", "\n", "p", "r", "i", "n", "t", " ", "f", "(", ")", ";">>,

    \*   class A { init() { return; } }
    \*   print A();
    return_init |->
        <<"c", "l", "a", "s", "s", " ", "A", " ", "{", " ", "i", "n", "i", "t", "(", ")", " ",
          "{", " ", "r", "e", "t", "u", "r", "n", ";", " ", "}", " ", "}", "\n", "p", "r", "i",
          "n", "t", " ", "A", "(", ")", ";">>,

    \*   fun f(a) { return a + 1; }
    \*   print f(1);
    return_value |->
        <<"f", "u", "n", " ", "f", "(", "a", ")", " ", "{", " ", "r", "e", "t", "u", "r", "n",
          " ", "a", " ", "+", " ", "1", ";", " ", "}", "\n", "p", "r", "i", "n", "t", " ", "f",
          "(", "1", ")", ";">>,

    \*   class A {}
    \*   print 1;
    \*   print A().x;
    \*   print 2;
    no_property |->
        <<"c", "l", "a", "s", "s", " ", "A", " ", "{", "}", "\n", "p", "r", "i", "n", "t", " ",
          "1", ";", "\n", "p", "r", "i", "n", "t", " ", "A", "(", ")", ".", "x", ";", "\n", "p",
          "r", "i", "n", "t", " ", "2", ";">>,

    \*   class A {}
    \*   class B < A { m() { return super.x; } }
    \*   print 1;
    \*   B().m();
    \*   print 2;
    no_super_property |->
        <<"c", "l", "a", "s", "s", " ", "A", " ", "{", "}", "\n", "c", "l", "a", "s", "s", " ",
          "B", " ", "<", " ", "A", " ", "{", " ", "m", "(", ")", " ", "{", " ", "r", "e", "t",
          "u", "r", "n", " ", "s", "u", "p", "e", "r", ".", "x", ";", " ", "}", " ", "}", "\n",
          "p", "r", "i", "n", "t", " ", "1", ";", "\n", "B", "(", ")", ".", "m", "(", ")", ";",
          "\n", "p", "r", "i", "n", "t", " ", "2", ";">>,

    \*   var a = "g";
    \*   {
    \*     fun f() { a = "x"; }
    \*     var a = "b";
    \*     f();
    \*     print a;
    \*   }
    \*   print a;
    rebind |->
        <<"v", "a", "r", " ", "a", " ", "=", " ", "\"", "g", "\"", ";", "\n", "{", "\n", " ",
          " ", "f", "u", "n", " ", "f", "(", ")", " ", "{", " ", "a", " ", "=", " ", "\"", "x",
          "\"", ";", " ", "}", "\n", " ", " ", "v", "a", "r", " ", "a", " ", "=", " ", "\"", "b",
          "\"", ";", "\n", " ", " ", "f", "(", ")", ";", "\n", " ", " ", "p", "r", "i", "n", "t",
          " ", "a", ";", "\n", "}", "\n", "p", "r", "i", "n", "t", " ", "a", ";">>,

    \*   { var a = 1; { var a = 2; print a; } print a; }
    shadow |->
        <<"{", " ", "v", "a", "r", " ", "a", " ", "=", " ", "1", ";", " ", "{", " ", "v", "a",
          "r", " ", "a", " ", "=", " ", "2", ";", " ", "p", "r", "i", "n", "t", " ", "a", ";",
          " ", "}", " ", "p", "r", "i", "n", "t", " ", "a", ";", " ", "}">>,

    \*   { fun f() { return nil + 1; } print 1; f(); print 2; }
    \*   print 3;
    block_error |->
        <<"{", " ", "f", "u", "n", " ", "f", "(", ")", " ", "{", " ", "r", "e", "t", "u", "r",
          "n", " ", "n", "i", "l", " ", "+", " ", "1", ";", " ", "}", " ", "p", "r", "i", "n",
          "t", " ", "1", ";", " ", "f", "(", ")", ";", " ", "p", "r", "i", "n", "t", " ", "2",
          ";", " ", "}", "\n", "p", "r", "i", "n", "t", " ", "3", ";">>,

    \*   {
    \*     fun f() { { return 1; } }
    \*     print f();
    \*     print -"a";
    \*     print 2;
    \*   }
    \*   print 3;
    unwind |->
        <<"{", "\n", " ", " ", "f", "u", "n", " ", "f", "(", ")", " ", "{", " ", "{", " ", "r",
          "e", "t", "u", "r", "n", " ", "1", ";", " ", "}", " ", "}", "\n", " ", " ", "p", "r",
          "i", "n", "t", " ", "f", "(", ")", ";", "\n", " ", " ", "p", "r", "i", "n", "t", " ",
          "-", "\"", "a", "\"", ";", "\n", " ", " ", "p", "r", "i", "n", "t", " ", "2", ";",
          "\n", "}", "\n", "p", "r", "i", "n", "t", " ", "3", ";">>,

    \*   fun f() { { return 1; } }
    \*   print f();
    block_return |->
        <<"f", "u", "n", " ", "f", "(", ")", " ", "{", " ", "{", " ", "r", "e", "t", "u", "r",
          "n", " ", "1", ";", " ", "}", " ", "}", "\n", "p", "r", "i", "n", "t", " ", "f", "(",
          ")", ";">>,

    \*   var i = 0;
    \*   while (i < 2) i = i + 1;
    \*   print i;
    while_loop |->
        <<"v", "a", "r", " ", "i", " ", "=", " ", "0", ";", "\n", "w", "h", "i", "l", "e", " ",
          "(", "i", " ", "<", " ", "2", ")", " ", "i", " ", "=", " ", "i", " ", "+", " ", "1",
          ";", "\n", "p", "r", "i", "n", "t", " ", "i", ";">>,

    \*   for (var i = 0; i < 2; i = i + 1) print i;
    for_loop |->
        <<"f", "o", "r", " ", "(", "v", "a", "r", " ", "i", " ", "=", " ", "0", ";", " ", "i",
          " ", "<", " ", "2", ";", " ", "i", " ", "=", " ", "i", " ", "+", " ", "1", ")", " ",
          "p", "r", "i", "n", "t", " ", "i", ";">>,

    \*   print nil or "x"; print 1 and 2 == 2; if (!true) print 1; else print clock;
    logic |->
        <<"p", "r", "i", "n", "t", " ", "n", "i", "l", " ", "o", "r", " ", "\"", "x", "\"", ";",
          " ", "p", "r", "i", "n", "t", " ", "1", " ", "a", "n", "d", " ", "2", " ", "=", "=",
          " ", "2", ";", " ", "i", "f", " ", "(", "!", "t", "r", "u", "e", ")", " ", "p", "r",
          "i", "n", "t", " ", "1", ";", " ", "e", "l", "s", "e", " ", "p", "r", "i", "n", "t",
          " ", "c", "l", "o", "c", "k", ";">>,

    \*   class A { m() { return this.v; } }
    \*   var a = A();
    \*   a.v = 5;
    \*   print a.m();
    \*   print a; print A; print a.m;
    fields |->
        <<"c", "l", "a", "s", "s", " ", "A", " ", "{", " ", "m", "(", ")", " ", "{", " ", "r",
          "e", "t", "u", "r", "n", " ", "t", "h", "i", "s", ".", "v", ";", " ", "}", " ", "}",
          "\n", "v", "a", "r", " ", "a", " ", "=", " ", "A", "(", ")", ";", "\n", "a", ".", "v",
          " ", "=", " ", "5", ";", "\n", "p", "r", "i", "n", "t", " ", "a", ".", "m", "(", ")",
          ";", "\n", "p", "r", "i", "n", "t", " ", "a", ";", " ", "p", "r", "i", "n", "t", " ",
          "A", ";", " ", "p", "r", "i", "n", "t", " ", "a", ".", "m", ";">>,

    \*   print 1; @
    scan_error |->
        <<"p", "r", "i", "n", "t", " ", "1", ";", " ", "@">>,

    \*   #
    scan_error_only |->
        <<"#">>,

    \*   print "a;
    string_open |->
        <<"p", "r", "i", "n", "t", " ", "\"", "a", ";">>,

    \*   print ;
    \*   print 2;
    parse_error |->
        <<"p", "r", "i", "n", "t", " ", ";", "\n", "p", "r", "i", "n", "t", " ", "2", ";">>,

    \*   var = 1 print 2;
    parse_error_sync |->
        <<"v", "a", "r", " ", "=", " ", "1", " ", "p", "r", "i", "n", "t", " ", "2", ";">>,

    \*   1 = 2;
    bad_target |->
        <<"1", " ", "=", " ", "2", ";">>,

    \*   return 1;
    top_return |->
        <<"r", "e", "t", "u", "r", "n", " ", "1", ";">>,

    \*   print this;
    top_this |->
        <<"p", "r", "i", "n", "t", " ", "t", "h", "i", "s", ";">>,

    \*   { var a = 1; var a = 2; }
    twice |->
        <<"{", " ", "v", "a", "r", " ", "a", " ", "=", " ", "1", ";", " ", "v", "a", "r", " ",
          "a", " ", "=", " ", "2", ";", " ", "}">>,

    \*   "f"(1);
    not_callable |->
        <<"\"", "f", "\"", "(", "1", ")", ";">>,

    \*   fun f(a) {} f();
    arity |->
        <<"f", "u", "n", " ", "f", "(", "a", ")", " ", "{", "}", " ", "f", "(", ")", ";">>,

    \*   print 1; x = 1; print 2;
    undefined |->
        <<"p", "r", "i", "n", "t", " ", "1", ";", " ", "x", " ", "=", " ", "1", ";", " ", "p",
          "r", "i", "n", "t", " ", "2", ";">>,

    \*   var A = 1; class B < A {}
    bad_superclass |->
        <<"v", "a", "r", " ", "A", " ", "=", " ", "1", ";", " ", "c", "l", "a", "s", "s", " ",
          "B", " ", "<", " ", "A", " ", "{", "}">>,

    \*
    empty |->
        <<>>,

    \*   // nothing
    \*
    comment |->
        <<"/", "/", " ", "n", "o", "t", "h", "i", "n", "g", "\n">>,

    \*   class A {
    \*     init(n) { this.n = n; }
    \*     get() { { return this.n; } }
    \*   }
    \*   var a = A(1);
    \*   var b = A(2);
    \*   print a.get(); print b.get();
    \*   var g = a.get;
    \*   print g();
    this_bound |->
        <<"c", "l", "a", "s", "s", " ", "A", " ", "{", "\n", " ", " ", "i", "n", "i", "t", "(",
          "n", ")", " ", "{", " ", "t", "h", "i", "s", ".", "n", " ", "=", " ", "n", ";", " ",
          "}", "\n", " ", " ", "g", "e", "t", "(", ")", " ", "{", " ", "{", " ", "r", "e", "t",
          "u", "r", "n", " ", "t", "h", "i", "s", ".", "n", ";", " ", "}", " ", "}", "\n", "}",
          "\n", "v", "a", "r", " ", "a", " ", "=", " ", "A", "(", "1", ")", ";", "\n", "v", "a",
          "r", " ", "b", " ", "=", " ", "A", "(", "2", ")", ";", "\n", "p", "r", "i", "n", "t",
          " ", "a", ".", "g", "e", "t", "(", ")", ";", " ", "p", "r", "i", "n", "t", " ", "b",
          ".", "g", "e", "t", "(", ")", ";", "\n", "v", "a", "r", " ", "g", " ", "=", " ", "a",
          ".", "g", "e", "t", ";", "\n", "p", "r", "i", "n", "t", " ", "g", "(", ")", ";">>,

    \*   class Outer {
    \*     make() {
    \*       class Inner {
    \*         who() { return this; }
    \*       }
    \*       return Inner().who();
    \*     }
    \*   }
    \*   print Outer().make();
    this_nested |->
        <<"c", "l", "a", "s", "s", " ", "O", "u", "t", "e", "r", " ", "{", "\n", " ", " ", "m",
          "a", "k", "e", "(", ")", " ", "{", "\n", " ", " ", " ", " ", "c", "l", "a", "s", "s",
          " ", "I", "n", "n", "e", "r", " ", "{", "\n", " ", " ", " ", " ", " ", " ", "w", "h",
          "o", "(", ")", " ", "{", " ", "r", "e", "t", "u", "r", "n", " ", "t", "h", "i", "s",
          ";", " ", "}", "\n", " ", " ", " ", " ", "}", "\n", " ", " ", " ", " ", "r", "e", "t",
          "u", "r", "n", " ", "I", "n", "n", "e", "r", "(", ")", ".", "w", "h", "o", "(", ")",
          ";", "\n", " ", " ", "}", "\n", "}", "\n", "p", "r", "i", "n", "t", " ", "O", "u", "t",
          "e", "r", "(", ")", ".", "m", "a", "k", "e", "(", ")", ";">>,

    \*   class A { m() { print "A.m"; } }
    \*   class B < A { m() { print "B.m"; } t() { super.m(); } }
    \*   class C < B { m() { print "C.m"; } }
    \*   C().t();
    super_chain |->
        <<"c", "l", "a", "s", "s", " ", "A", " ", "{", " ", "m", "(", ")", " ", "{", " ", "p",
          "r", "i", "n", "t", " ", "\"", "A", ".", "m", "\"", ";", " ", "}", " ", "}", "\n", "c",
          "l", "a", "s", "s", " ", "B", " ", "<", " ", "A", " ", "{", " ", "m", "(", ")", " ",
          "{", " ", "p", "r", "i", "n", "t", " ", "\"", "B", ".", "m", "\"", ";", " ", "}", " ",
          "t", "(", ")", " ", "{", " ", "s", "u", "p", "e", "r", ".", "m", "(", ")", ";", " ",
          "}", " ", "}", "\n", "c", "l", "a", "s", "s", " ", "C", " ", "<", " ", "B", " ", "{",
          " ", "m", "(", ")", " ", "{", " ", "p", "r", "i", "n", "t", " ", "\"", "C", ".", "m",
          "\"", ";", " ", "}", " ", "}", "\n", "C", "(", ")", ".", "t", "(", ")", ";">>,

    \*   class A { who() { return this; } }
    \*   class B < A { t() { return super.who(); } }
    \*   class C < B {}
    \*   print C().t();
    super_this |->
        <<"c", "l", "a", "s", "s", " ", "A", " ", "{", " ", "w", "h", "o", "(", ")", " ", "{",
          " ", "r", "e", "t", "u", "r", "n", " ", "t", "h", "i", "s", ";", " ", "}", " ", "}",
          "\n", "c", "l", "a", "s", "s", " ", "B", " ", "<", " ", "A", " ", "{", " ", "t", "(",
          ")", " ", "{", " ", "r", "e", "t", "u", "r", "n", " ", "s", "u", "p", "e", "r", ".",
          "w", "h", "o", "(", ")", ";", " ", "}", " ", "}", "\n", "c", "l", "a", "s", "s", " ",
          "C", " ", "<", " ", "B", " ", "{", "}", "\n", "p", "r", "i", "n", "t", " ", "C", "(",
          ")", ".", "t", "(", ")", ";">>,

    \*   class X { m() { print "X.m"; } }
    \*   class Y < X {
    \*     make() {
    \*       class A { m() { print "A.m"; } }
    \*       class B < A { t() { super.m(); } }
    \*       B().t();
    \*     }
    \*   }
    \*   Y().make();
    super_nested |->
        <<"c", "l", "a", "s", "s", " ", "X", " ", "{", " ", "m", "(", ")", " ", "{", " ", "p",
          "r", "i", "n", "t", " ", "\"", "X", ".", "m", "\"", ";", " ", "}", " ", "}", "\n", "c",
          "l", "a", "s", "s", " ", "Y", " ", "<", " ", "X", " ", "{", "\n", " ", " ", "m", "a",
          "k", "e", "(", ")", " ", "{", "\n", " ", " ", " ", " ", "c", "l", "a", "s", "s", " ",
          "A", " ", "{", " ", "m", "(", ")", " ", "{", " ", "p", "r", "i", "n", "t", " ", "\"",
          "A", ".", "m", "\"", ";", " ", "}", " ", "}", "\n", " ", " ", " ", " ", "c", "l", "a",
          "s", "s", " ", "B", " ", "<", " ", "A", " ", "{", " ", "t", "(", ")", " ", "{", " ",
          "s", "u", "p", "e", "r", ".", "m", "(", ")", ";", " ", "}", " ", "}", "\n", " ", " ",
          " ", " ", "B", "(", ")", ".", "t", "(", ")", ";", "\n", " ", " ", "}", "\n", "}", "\n",
          "Y", "(", ")", ".", "m", "a", "k", "e", "(", ")", ";">>,

    \*   class A { init(x) { this.x = x; } }
    \*   class B < A {}
    \*   var b = B(7);
    \*   print b.x;
    \*   print b;
    \*   class D {}
    \*   print D();
    \*   print B(1, 2);
    init_chain |->
        <<"c", "l", "a", "s", "s", " ", "A", " ", "{", " ", "i", "n", "i", "t", "(", "x", ")",
          " ", "{", " ", "t", "h", "i", "s", ".", "x", " ", "=", " ", "x", ";", " ", "}", " ",
          "}", "\n", "c", "l", "a", "s", "s", " ", "B", " ", "<", " ", "A", " ", "{", "}", "\n",
          "v", "a", "r", " ", "b", " ", "=", " ", "B", "(", "7", ")", ";", "\n", "p", "r", "i",
          "n", "t", " ", "b", ".", "x", ";", "\n", "p", "r", "i", "n", "t", " ", "b", ";", "\n",
          "c", "l", "a", "s", "s", " ", "D", " ", "{", "}", "\n", "p", "r", "i", "n", "t", " ",
          "D", "(", ")", ";", "\n", "p", "r", "i", "n", "t", " ", "B", "(", "1", ",", " ", "2",
          ")", ";">>,

    \*   class D {}
    \*   D(1);
    init_none |->
        <<"c", "l", "a", "s", "s", " ", "D", " ", "{", "}", "\n", "D", "(", "1", ")", ";">>,

    \*   class A { init() { this.x = 1; } }
    \*   var a = A();
    \*   print a.init();
    \*   print a.x;
    init_result |->
        <<"c", "l", "a", "s", "s", " ", "A", " ", "{", " ", "i", "n", "i", "t", "(", ")", " ",
          "{", " ", "t", "h", "i", "s", ".", "x", " ", "=", " ", "1", ";", " ", "}", " ", "}",
          "\n", "v", "a", "r", " ", "a", " ", "=", " ", "A", "(", ")", ";", "\n", "p", "r", "i",
          "n", "t", " ", "a", ".", "i", "n", "i", "t", "(", ")", ";", "\n", "p", "r", "i", "n",
          "t", " ", "a", ".", "x", ";">>,

    \*   var t = 0;
    \*   fun f(a, b, c) { print a; print b; print c; }
    \*   f(t = 1, t = t + 1, t = t * 10);
    call_args |->
        <<"v", "a", "r", " ", "t", " ", "=", " ", "0", ";", "\n", "f", "u", "n", " ", "f", "(",
          "a", ",", " ", "b", ",", " ", "c", ")", " ", "{", " ", "p", "r", "i", "n", "t", " ",
          "a", ";", " ", "p", "r", "i", "n", "t", " ", "b", ";", " ", "p", "r", "i", "n", "t",
          " ", "c", ";", " ", "}", "\n", "f", "(", "t", " ", "=", " ", "1", ",", " ", "t", " ",
          "=", " ", "t", " ", "+", " ", "1", ",", " ", "t", " ", "=", " ", "t", " ", "*", " ",
          "1", "0", ")", ";">>,

    \*   var t = 0;
    \*   fun f(a, b) { print "body"; }
    \*   f(t = 1, t = t + 1, t = t * 10);
    call_arity |->
        <<"v", "a", "r", " ", "t", " ", "=", " ", "0", ";", "\n", "f", "u", "n", " ", "f", "(",
          "a", ",", " ", "b", ")", " ", "{", " ", "p", "r", "i", "n", "t", " ", "\"", "b", "o",
          "d", "y", "\"", ";", " ", "}", "\n", "f", "(", "t", " ", "=", " ", "1", ",", " ", "t",
          " ", "=", " ", "t", " ", "+", " ", "1", ",", " ", "t", " ", "=", " ", "t", " ", "*",
          " ", "1", "0", ")", ";">>,

    \*   var t = 0;
    \*   var n = 1;
    \*   n(t = 1);
    call_value |->
        <<"v", "a", "r", " ", "t", " ", "=", " ", "0", ";", "\n", "v", "a", "r", " ", "n", " ",
          "=", " ", "1", ";", "\n", "n", "(", "t", " ", "=", " ", "1", ")", ";">>,

    \*   var t = 0;
    \*   print nil and (t = 1);
    \*   print 0 and (t = 2);
    \*   if ((false and (t = 3)) == false) print t;
    \*   print 1 or (t = 4);
    \*   print nil or (t = 5);
    \*   print t;
    logic_short |->
        <<"v", "a", "r", " ", "t", " ", "=", " ", "0", ";", "\n", "p", "r", "i", "n", "t", " ",
          "n", "i", "l", " ", "a", "n", "d", " ", "(", "t", " ", "=", " ", "1", ")", ";", "\n",
          "p", "r", "i", "n", "t", " ", "0", " ", "a", "n", "d", " ", "(", "t", " ", "=", " ",
          "2", ")", ";", "\n", "i", "f", " ", "(", "(", "f", "a", "l", "s", "e", " ", "a", "n",
          "d", " ", "(", "t", " ", "=", " ", "3", ")", ")", " ", "=", "=", " ", "f", "a", "l",
          "s", "e", ")", " ", "p", "r", "i", "n", "t", " ", "t", ";", "\n", "p", "r", "i", "n",
          "t", " ", "1", " ", "o", "r", " ", "(", "t", " ", "=", " ", "4", ")", ";", "\n", "p",
          "r", "i", "n", "t", " ", "n", "i", "l", " ", "o", "r", " ", "(", "t", " ", "=", " ",
          "5", ")", ";", "\n", "p", "r", "i", "n", "t", " ", "t", ";">>,

    \*   fun f() {}
    \*   class A {}
    \*   print nil; print true; print false; print 1; print 1.5; print 2.50;
    \*   print "str"; print f; print A; print A(); print clock;
    printing |->
        <<"f", "u", "n", " ", "f", "(", ")", " ", "{", "}", "\n", "c", "l", "a", "s", "s", " ",
          "A", " ", "{", "}", "\n", "p", "r", "i", "n", "t", " ", "n", "i", "l", ";", " ", "p",
          "r", "i", "n", "t", " ", "t", "r", "u", "e", ";", " ", "p", "r", "i", "n", "t", " ",
          "f", "a", "l", "s", "e", ";", " ", "p", "r", "i", "n", "t", " ", "1", ";", " ", "p",
          "r", "i", "n", "t", " ", "1", ".", "5", ";", " ", "p", "r", "i", "n", "t", " ", "2",
          ".", "5", "0", ";", "\n", "p", "r", "i", "n", "t", " ", "\"", "s", "t", "r", "\"", ";",
          " ", "p", "r", "i", "n", "t", " ", "f", ";", " ", "p", "r", "i", "n", "t", " ", "A",
          ";", " ", "p", "r", "i", "n", "t", " ", "A", "(", ")", ";", " ", "p", "r", "i", "n",
          "t", " ", "c", "l", "o", "c", "k", ";">>,

    \*   print 1 @;
    \*   print ;
    scan_then_parse |->
        <<"p", "r", "i", "n", "t", " ", "1", " ", "@", ";", "\n", "p", "r", "i", "n", "t", " ",
          ";">>,

    \*   var a = 1;
    \*   { print a; }
    global_in_block |->
        <<"v", "a", "r", " ", "a", " ", "=", " ", "1", ";", "\n", "{", " ", "p", "r", "i", "n",
          "t", " ", "a", ";", " ", "}">>,

    \*   { var a = 1; { print a; } }
    outer_local |->
        <<"{", " ", "v", "a", "r", " ", "a", " ", "=", " ", "1", ";", " ", "{", " ", "p", "r",
          "i", "n", "t", " ", "a", ";", " ", "}", " ", "}">>,

    \*   var g = 1;
    \*   { var a = 2; print a; print 3; }
    \*   print g;
    local_only |->
        <<"v", "a", "r", " ", "g", " ", "=", " ", "1", ";", "\n", "{", " ", "v", "a", "r", " ",
          "a", " ", "=", " ", "2", ";", " ", "p", "r", "i", "n", "t", " ", "a", ";", " ", "p",
          "r", "i", "n", "t", " ", "3", ";", " ", "}", "\n", "p", "r", "i", "n", "t", " ", "g",
          ";">>,

    \*   { ) }
    \*   print 1;
    sync_block |->
        <<"{", " ", ")", " ", "}", "\n", "p", "r", "i", "n", "t", " ", "1", ";">>,

    \*   class A { 1 }
    \*   print 1;
    class_body |->
        <<"c", "l", "a", "s", "s", " ", "A", " ", "{", " ", "1", " ", "}", "\n", "p", "r", "i",
          "n", "t", " ", "1", ";">>,

    \*   print 1
    \*   print 2;
    no_semicolon |->
        <<"p", "r", "i", "n", "t", " ", "1", "\n", "p", "r", "i", "n", "t", " ", "2", ";">>,

    \*   + 1;
    \*   print 2;
    bad_start |->
        <<"+", " ", "1", ";", "\n", "p", "r", "i", "n", "t", " ", "2", ";">>,

    \*   var a = (1; print 2;
    sync_semicolon |->
        <<"v", "a", "r", " ", "a", " ", "=", " ", "(", "1", ";", " ", "p", "r", "i", "n", "t",
          " ", "2", ";">>,

    \*   print 1;
    \*   ) print 2;
    stray_paren |->
        <<"p", "r", "i", "n", "t", " ", "1", ";", "\n", ")", " ", "p", "r", "i", "n", "t", " ",
          "2", ";">>,

    \*   var a = 1;
    \*   { var b = 2; { a = 3; b = 4; } print b; }
    \*   print a;
    \*   c = 5;
    \*   print 6;
    assign_chain |->
        <<"v", "a", "r", " ", "a", " ", "=", " ", "1", ";", "\n", "{", " ", "v", "a", "r", " ",
          "b", " ", "=", " ", "2", ";", " ", "{", " ", "a", " ", "=", " ", "3", ";", " ", "b",
          " ", "=", " ", "4", ";", " ", "}", " ", "p", "r", "i", "n", "t", " ", "b", ";", " ",
          "}", "\n", "p", "r", "i", "n", "t", " ", "a", ";", "\n", "c", " ", "=", " ", "5", ";",
          "\n", "p", "r", "i", "n", "t", " ", "6", ";">>,

    \*   for (var i = 0;; i = i + 1) if (i == 1) nil(); else print i;
    for_no_cond |->
        <<"f", "o", "r", " ", "(", "v", "a", "r", " ", "i", " ", "=", " ", "0", ";", ";", " ",
          "i", " ", "=", " ", "i", " ", "+", " ", "1", ")", " ", "i", "f", " ", "(", "i", " ",
          "=", "=", " ", "1", ")", " ", "n", "i", "l", "(", ")", ";", " ", "e", "l", "s", "e",
          " ", "p", "r", "i", "n", "t", " ", "i", ";">>,

    \*   for (var i = 0; i < 2;) i = i + 1;
    for_no_incr |->
        <<"f", "o", "r", " ", "(", "v", "a", "r", " ", "i", " ", "=", " ", "0", ";", " ", "i",
          " ", "<", " ", "2", ";", ")", " ", "i", " ", "=", " ", "i", " ", "+", " ", "1", ";">>,

    \*   var i = 0;
    \*   for (; i < 2; i = i + 1) print i;
    for_no_init |->
        <<"v", "a", "r", " ", "i", " ", "=", " ", "0", ";", "\n", "f", "o", "r", " ", "(", ";",
          " ", "i", " ", "<", " ", "2", ";", " ", "i", " ", "=", " ", "i", " ", "+", " ", "1",
          ")", " ", "p", "r", "i", "n", "t", " ", "i", ";">>,

    \*   for (;;) nil();
    for_bare |->
        <<"f", "o", "r", " ", "(", ";", ";", ")", " ", "n", "i", "l", "(", ")", ";">>,

    \*   var s = "a
    \*   b"; // c
    \*   print 1.5 >= 2 != !true;
    tokens |->
        <<"v", "a", "r", " ", "s", " ", "=", " ", "\"", "a", "\n", "b", "\"", ";", " ", "/", "/",
          " ", "c", "\n", "p", "r", "i", "n", "t", " ", "1", ".", "5", " ", ">", "=", " ", "2",
          " ", "!", "=", " ", "!", "t", "r", "u", "e", ";">>,

    \*   class A { m() { return this; { var a = 1; var a = 2; } fun g() { return 1; } } }
    \*   fun f() { class B < B {} }
    \*   return 1;
    nested_errors |->
        <<"c", "l", "a", "s", "s", " ", "A", " ", "{", " ", "m", "(", ")", " ", "{", " ", "r",
          "e", "t", "u", "r", "n", " ", "t", "h", "i", "s", ";", " ", "{", " ", "v", "a", "r",
          " ", "a", " ", "=", " ", "1", ";", " ", "v", "a", "r", " ", "a", " ", "=", " ", "2",
          ";", " ", "}", " ", "f", "u", "n", " ", "g", "(", ")", " ", "{", " ", "r", "e", "t",
          "u", "r", "n", " ", "1", ";", " ", "}", " ", "}", " ", "}", "\n", "f", "u", "n", " ",
          "f", "(", ")", " ", "{", " ", "c", "l", "a", "s", "s", " ", "B", " ", "<", " ", "B",
          " ", "{", "}", " ", "}", "\n", "r", "e", "t", "u", "r", "n", " ", "1", ";">>
    ]

Lines ==
    [
    \*   var a = 1;
    var |->
        <<"v", "a", "r", " ", "a", " ", "=", " ", "1", ";">>,

    \*   print a;
    print |->
        <<"p", "r", "i", "n", "t", " ", "a", ";">>,

    \*   a = a + 1;
    incr |->
        <<"a", " ", "=", " ", "a", " ", "+", " ", "1", ";">>,

    \*   print ;
    syntax |->
        <<"p", "r", "i", "n", "t", " ", ";">>,

    \*   return 1;
    static |->
        <<"r", "e", "t", "u", "r", "n", " ", "1", ";">>,

    \*   a = 1 / 0;
    crash |->
        <<"a", " ", "=", " ", "1", " ", "/", " ", "0", ";">>,

    \*   fun f() { print "f"; } class A {}
    fun |->
        <<"f", "u", "n", " ", "f", "(", ")", " ", "{", " ", "p", "r", "i", "n", "t", " ", "\"",
          "f", "\"", ";", " ", "}", " ", "c", "l", "a", "s", "s", " ", "A", " ", "{", "}">>,

    \*   f(); print A;
    use |->
        <<"f", "(", ")", ";", " ", "p", "r", "i", "n", "t", " ", "A", ";">>
    ]
\* ---- end of programs ----

\* lines read at the prompt in one session
MaxLines == 2

Init ==
    /\ pc = "main"
    /\ mode = "none"
    /\ script = <<>>
    /\ scanner = Scanner_init(<<>>, LoxErrorHandler_init)
    /\ parser = Parser_init(<<>>, LoxErrorHandler_init, 0)
    /\ statements = <<>>
    /\ resolver = Resolver_init(LoxErrorHandler_init, EmptyDict)
    /\ k = 0
    /\ handler = LoxErrorHandler_init
    /\ interpreter = Interpreter_init
    /\ exit_code = -1
    /\ lines = 0
    /\ exception = ""
    /\ run_log = RunLogInit
    /\ f_locals = None

\* a new Interpreter() for every run()
get_interpreter_new(INTERPRETER) == Interpreter_init

\* INTERPRETER = Interpreter() is made once, when the module is loaded: Init
get_interpreter(INTERPRETER) == INTERPRETER

\* run(script), up to the loop of scan_tokens
run(source) ==
    /\ script' = source
    /\ scanner' = Scanner_init(source, handler)
    /\ parser' = Parser_init(<<>>, handler, lines)
    /\ statements' = <<>>
    /\ resolver' = Resolver_init(handler, interpreter.locals)
    /\ k' = 0
    /\ run_log' = RunLogInit
    /\ pc' = "scan"

\* main with two arguments: run_file(sys.argv[1])
main_run_file ==
    /\ pc = "main"
    /\ \E name \in DOMAIN Files : run(Files[name])
    /\ mode' = "file"
    /\ UNCHANGED <<handler, interpreter, exit_code, lines, exception, f_locals>>

\* main with more than two arguments: usage, exit(64)
main_usage ==
    /\ pc = "main"
    /\ pc' = "exited"
    /\ exit_code' = 64
    /\ UNCHANGED <<mode, script, scanner, parser, statements, resolver, k,
                   handler, interpreter, lines, exception, run_log, f_locals>>

\* main with one argument: run_prompt()
main_run_prompt ==
    /\ pc = "main"
    /\ pc' = "prompt"
    /\ mode' = "prompt"
    /\ UNCHANGED <<script, scanner, parser, statements, resolver, k,
                   handler, interpreter, exit_code, lines, exception, run_log, f_locals>>

\* run_prompt: line = input("> "); run(line)
run_prompt_line ==
    /\ pc = "prompt"
    /\ lines < MaxLines
    /\ lines' = lines + 1
    /\ \E name \in DOMAIN Lines : run(Lines[name])
    /\ UNCHANGED <<mode, handler, interpreter, exit_code, exception, f_locals>>

\* run_prompt: EOFError, break; main goes on to exit(0)
run_prompt_eof ==
    /\ pc = "prompt"
    /\ pc' = "exited"
    /\ exit_code' = 0
    /\ UNCHANGED <<mode, script, scanner, parser, statements, resolver, k,
                   handler, interpreter, lines, exception, run_log, f_locals>>

\* scan_tokens: one iteration of its loop
scan_token ==
    /\ pc = "scan"
    /\ ~Scanner_is_at_end(scanner)
    /\ scanner' = Scanner_scan_token([scanner EXCEPT !.eh = handler, !.start = scanner.current])
    /\ handler' = scanner'.eh
    /\ run_log' = [run_log EXCEPT !.scan_errors = @ + Reported(handler, handler')]
    /\ UNCHANGED <<pc, mode, script, parser, statements, resolver, k,
                   interpreter, exit_code, lines, exception, f_locals>>

\* scan_tokens: the loop is over, EOF is appended; back in run():
\* if _tokens_is_empty(tokens): return; parser = Parser(tokens)
scan_tokens_end ==
    /\ pc = "scan"
    /\ Scanner_is_at_end(scanner)
    /\ scanner' = [scanner EXCEPT !.tokens = Append(@, Token("EOF", "", None, scanner.line))]
    /\ parser' = Parser_init(scanner'.tokens, handler, lines)
    /\ pc' = IF tokens_is_empty(scanner'.tokens) THEN "returned" ELSE "parse"
    /\ UNCHANGED <<mode, script, statements, resolver, k,
                   handler, interpreter, exit_code, lines, exception, run_log, f_locals>>

\* Parser.parse: one iteration, statements.append(self._declaration())
parse_declaration ==
    /\ pc = "parse"
    /\ ~Parser_is_at_end(parser)
    /\ LET d == Parser_declaration([parser EXCEPT !.eh = handler])
       IN  /\ parser' = d.p
           /\ statements' = Append(statements, d.v)
           /\ handler' = d.p.eh
    /\ run_log' = [run_log EXCEPT !.parse_errors = @ + Reported(handler, handler')]
    /\ UNCHANGED <<pc, mode, script, scanner, resolver, k,
                   interpreter, exit_code, lines, exception, f_locals>>

\* Parser.parse returns; run(): if HAD_ERROR: return; interpreter = get_interpreter();
\* resolver = Resolver(interpreter)
parse_end ==
    /\ pc = "parse"
    /\ Parser_is_at_end(parser)
    /\ pc' = IF run_must_return(handler) THEN "returned" ELSE "resolve"
    /\ interpreter' = IF run_must_return(handler) THEN interpreter ELSE get_interpreter(interpreter)
    /\ resolver' = Resolver_init(handler, interpreter'.locals)
    /\ k' = 1
    /\ UNCHANGED <<mode, script, scanner, parser, statements,
                   handler, exit_code, lines, exception, run_log, f_locals>>

\* Resolver.resolve: one iteration, self._resolve_statement(statement);
\* an exception it raises leaves run() and everything above it
resolve_statement ==
    /\ pc = "resolve"
    /\ k <= Len(statements)
    /\ resolver' = Resolver_resolve_statement([resolver EXCEPT !.eh = handler], statements[k])
    /\ handler' = resolver'.eh
    /\ interpreter' = [interpreter EXCEPT !.locals = resolver'.locals]
    /\ run_log' = [run_log EXCEPT !.resolve_errors = @ + Reported(handler, handler'),
                                  !.resolved = @ + 1]
    /\ IF resolver'.exc # ""
       THEN pc' = "died" /\ exception' = resolver'.exc /\ exit_code' = 1 /\ k' = k
       ELSE pc' = pc /\ k' = k + 1 /\ UNCHANGED <<exception, exit_code>>
    /\ UNCHANGED <<mode, script, scanner, parser, statements, lines, f_locals>>

\* Resolver.resolve returns; run(): if HAD_ERROR: return; interpreter.interpret(statements)
resolve_end ==
    /\ pc = "resolve"
    /\ k > Len(statements)
    /\ pc' = IF run_must_return(handler) THEN "returned" ELSE "interpret"
    /\ k' = 1
    /\ UNCHANGED <<mode, script, scanner, parser, statements, resolver,
                   handler, interpreter, exit_code, lines, exception, run_log, f_locals>>

\* Interpreter.interpret: one iteration, self._execute(statement); except
\* LoxRuntimeError: error_handler.runtime_error(err) and interpret returns;
\* any other exception is not caught
execute_statement ==
    /\ pc = "interpret"
    /\ k <= Len(statements)
    /\ LET o == Interpreter_execute(interpreter, statements[k])
       IN  /\ interpreter' = o.I
           /\ CASE o.kind = "ok" ->
                     /\ pc' = pc /\ k' = k + 1
                     /\ UNCHANGED <<handler, exception, exit_code>>
                [] o.kind = "LoxRuntimeError" ->
                     /\ handler' = LoxErrorHandler_runtime_error(handler, o.token, o.message)
                     /\ pc' = "returned" /\ k' = k
                     /\ UNCHANGED <<exception, exit_code>>
                [] OTHER ->
                     /\ pc' = "died" /\ k' = k /\ exit_code' = 1
                     /\ exception' = IF o.kind = "PyException" THEN o.message ELSE o.kind
                     /\ UNCHANGED handler
    /\ run_log' = [run_log EXCEPT !.executed = @ + 1,
                                  !.runtime_errors = @ + Reported(handler, handler')]
    /\ UNCHANGED <<mode, script, scanner, parser, statements, resolver, lines, f_locals>>

\* Interpreter.interpret: the loop is over
interpret_end ==
    /\ pc = "interpret"
    /\ k > Len(statements)
    /\ pc' = "returned"
    /\ UNCHANGED <<mode, script, scanner, parser, statements, resolver, k,
                   handler, interpreter, exit_code, lines, exception, run_log, f_locals>>

\* run_file after run(script): exit(65), exit(70), or back to main and exit(0)
run_file_exit ==
    /\ pc = "returned"
    /\ mode = "file"
    /\ pc' = "exited"
    /\ exit_code' = run_file_exit_code(handler)
    /\ UNCHANGED <<mode, script, scanner, parser, statements, resolver, k,
                   handler, interpreter, lines, exception, run_log, f_locals>>

\* run_prompt after run(line): LoxErrorHandler.HAD_ERROR = False, next input()
run_prompt_next ==
    /\ pc = "returned"
    /\ mode = "prompt"
    /\ pc' = "prompt"
    /\ handler' = [handler EXCEPT !.HAD_ERROR = FALSE]
    /\ UNCHANGED <<mode, script, scanner, parser, statements, resolver, k,
                   interpreter, exit_code, lines, exception, run_log, f_locals>>

Next ==
    \/ main_run_file
    \/ main_usage
    \/ main_run_prompt
    \/ run_prompt_line
    \/ run_prompt_eof
    \/ scan_token
    \/ scan_tokens_end
    \/ parse_declaration
    \/ parse_end
    \/ resolve_statement
    \/ resolve_end
    \/ execute_statement
    \/ interpret_end
    \/ run_file_exit
    \/ run_prompt_next

Spec == Init /\ [][Next]_vars

(***************************************************************************)
(* Parser._function, one iteration of its parameter loop at a time, for    *)
(* declarations with many parameters.  The run starts in run() with a      *)
(* script `fun f(P, ..., P) {}` of n parameters, is scanned by the actions *)
(* above and parsed by the three below; pc is "parameters" in the loop,    *)
(* "body" when there is no parameter, "declared" when _declaration has     *)
(* returned the statement.                                                 *)
(***************************************************************************)
\* the letters parameter names are made of: none of their pairs is a keyword
ParameterLetters == <<"a", "b", "c", "d", "e", "g", "h", "j", "k", "l", "m", "n", "p", "q", "r", "s", "t">>

MaxParameters == ARGS_MAX_SIZE + 2

ParameterCounts == {0, 1, 2} \cup (ARGS_MAX_SIZE - 1 .. MaxParameters)

\* fun f(aa,ab,...) {}  with n different two-letter parameter names
FunctionSource(n) ==
    <<"f", "u", "n", " ", "f", "(">>
        \o [j \in 1 .. 3 * n - 1 |->
               Let([i \in {(j - 1) \div 3} |->
               IF j % 3 = 1 THEN ParameterLetters[(i \div Len(ParameterLetters)) + 1]
               ELSE IF j % 3 = 2 THEN ParameterLetters[(i % Len(ParameterLetters)) + 1]
               ELSE ","])]
        \o <<")", " ", "{", "}">>

FunctionInit ==
    /\ pc = "scan"
    /\ mode = "file"
    /\ \E n \in ParameterCounts : script = FunctionSource(n)
    /\ scanner = Scanner_init(script, LoxErrorHandler_init)
    /\ parser = Parser_init(<<>>, LoxErrorHandler_init, 0)
    /\ statements = <<>>
    /\ resolver = Resolver_init(LoxErrorHandler_init, EmptyDict)
    /\ k = 0
    /\ handler = LoxErrorHandler_init
    /\ interpreter = Interpreter_init
    /\ exit_code = -1
    /\ lines = 0
    /\ exception = ""
    /\ run_log = RunLogInit
    /\ f_locals = None

\* _declaration: if self._match(FUN): return self._function("function"); _function up to its
\* loop: the name, the parenthesis and, unless ")" follows, the first parameter
function_declaration ==
    /\ pc = "parse"
    /\ Parser_check(parser, "FUN")
    /\ LET p == Parser_advance([parser EXCEPT !.eh = handler])
           name == Parser_consume(p, "IDENTIFIER", "Expect function name.")
           open == Parser_consume(name.p, "LEFT_PAREN", "Expect '(' after function name.")
           first == Parser_consume(open.p, "IDENTIFIER", "Expect parameter name.")
       IN  IF ~open.p.exc /\ ~Parser_check(open.p, "RIGHT_PAREN")
           THEN /\ parser' = first.p
                /\ f_locals' = [kind |-> "function", name |-> name.v, parameters |-> <<first.v>>]
                /\ pc' = "parameters"
           ELSE /\ parser' = open.p
                /\ f_locals' = [kind |-> "function", name |-> name.v, parameters |-> <<>>]
                /\ pc' = "body"
    /\ handler' = parser'.eh
    /\ run_log' = [run_log EXCEPT !.parse_errors = @ + Reported(handler, handler')]
    /\ UNCHANGED <<mode, script, scanner, statements, resolver, k,
                   interpreter, exit_code, lines, exception>>

\* while self._match(COMMA): parameters.append(self._consume(IDENTIFIER, ...)): one iteration
function_parameter ==
    /\ pc = "parameters"
    /\ Parser_match(parser, "COMMA").ok
    /\ LET name == Parser_consume(Parser_match([parser EXCEPT !.eh = handler], "COMMA").p,
                                  "IDENTIFIER", "Expect parameter name.")
       IN  /\ parser' = name.p
           /\ f_locals' = [f_locals EXCEPT !.parameters = Append(@, name.v)]
    /\ handler' = parser'.eh
    /\ run_log' = [run_log EXCEPT !.parse_errors = @ + Reported(handler, handler')]
    /\ UNCHANGED <<pc, mode, script, scanner, statements, resolver, k,
                   interpreter, exit_code, lines, exception>>

\* the loop is over: ")", "{", the body, return Function(name, parameters, body); back in
\* _declaration (a ParseError is caught there) and in parse: statements.append
function_body ==
    /\ \/ pc = "body"
       \/ pc = "parameters" /\ ~Parser_match(parser, "COMMA").ok
    /\ LET close == Parser_consume([parser EXCEPT !.eh = handler], "RIGHT_PAREN",
                                   "Expect ')' after parameters.")
           brace == Parser_consume(close.p, "LEFT_BRACE", "Expect '{' before function body.")
           body == Parser_block(brace.p)
       IN  IF body.p.exc
           THEN /\ parser' = Parser_synchronize([body.p EXCEPT !.exc = FALSE])
                /\ statements' = Append(statements, None)
           ELSE /\ parser' = body.p
                /\ statements' = Append(statements,
                                        Function(f_locals.name, f_locals.parameters, body.v))
    /\ handler' = parser'.eh
    /\ run_log' = [run_log EXCEPT !.parse_errors = @ + Reported(handler, handler')]
    /\ pc' = "declared"
    /\ UNCHANGED <<mode, script, scanner, resolver, k,
                   interpreter, exit_code, lines, exception, f_locals>>

FunctionNext ==
    \/ scan_token
    \/ scan_tokens_end
    \/ function_declaration
    \/ function_parameter
    \/ function_body

FunctionSpec == FunctionInit /\ [][FunctionNext]_vars

(***************************************************************************)
(* ast_printer.py and scripts/test_ast_printer.py.  The script builds an   *)
(* expression of Binary, Unary, Grouping and Literal nodes over Python     *)
(* numbers and None, makes an AstPrinter and prints what its print         *)
(* returns.  PrinterSpec runs main() of the script on each expression of   *)
(* PrinterExpressions; f_locals holds main's local, expression, and        *)
(* interpreter.stdout the standard output of the process.                  *)
(***************************************************************************)
PyInt(n) == [t |-> "int", n |-> n]

PyFloat(n, d) == [t |-> "float", n |-> n, d |-> d]

\* str() of a Python int or float
str_number(value) ==
    IF value.t = "int" THEN ToString(value.n)
    ELSE str_float(value).whole \o "." \o str_float(value).fraction

\* AstPrinter(): a class that leaves an abstract method of its base undefined cannot be
\* instantiated (TypeError).  abstractmethods are the methods Visitor declares with
\* abc.abstractmethod, methods those the class AstPrinter defines
AstPrinter_init ==
    LET abstractmethods ==
            {"visit_assign_expr", "visit_binary_expr", "visit_call_expr", "visit_get_expr",
             "visit_grouping_expr", "visit_literal_expr", "visit_noop_expr", "visit_logical_expr",
             "visit_set_expr", "visit_super_expr", "visit_this_expr", "visit_unary_expr",
             "visit_variable_expr"}
        methods ==
            {"_parenthesize", "print", "visit_binary_expr", "visit_unary_expr",
             "visit_grouping_expr", "visit_literal_expr"}
    IN  IF abstractmethods \ methods # {} THEN "TypeError" ELSE ""

\* print: expr.accept(self), and the visit methods with _parenthesize
RECURSIVE AstPrinter_print(_)
AstPrinter_print(expr) ==
    IF expr.k = "Binary"
    THEN "(" \o expr.operator.lexeme \o " " \o AstPrinter_print(expr.left)
             \o " " \o AstPrinter_print(expr.right) \o ")"
    ELSE IF expr.k = "Unary"
    THEN "(" \o expr.operator.lexeme \o " " \o AstPrinter_print(expr.right) \o ")"
    ELSE IF expr.k = "Grouping"
    THEN "(group " \o AstPrinter_print(expr.expression) \o ")"
    ELSE IF expr.value = None THEN "nil"
    ELSE str_number(expr.value)

PrinterLiterals == {Literal(PyInt(123)), Literal(PyFloat(4567, 100)), Literal(None)}

PrinterOperands ==
    PrinterLiterals
        \cup {Unary(Token("MINUS", "-", None, 1), e) : e \in PrinterLiterals}
        \cup {Grouping(e) : e \in PrinterLiterals}

PrinterExpressions ==
    PrinterOperands
        \cup {Binary(l, Token("STAR", "*", None, 1), r) : l \in PrinterOperands, r \in PrinterOperands}

PrinterInit ==
    /\ pc = "main"
    /\ mode = "file"
    /\ script = <<>>
    /\ scanner = Scanner_init(script, LoxErrorHandler_init)
    /\ parser = Parser_init(<<>>, LoxErrorHandler_init, 0)
    /\ statements = <<>>
    /\ resolver = Resolver_init(LoxErrorHandler_init, EmptyDict)
    /\ k = 0
    /\ handler = LoxErrorHandler_init
    /\ interpreter = Interpreter_init
    /\ exit_code = -1
    /\ lines = 0
    /\ exception = ""
    /\ run_log = RunLogInit
    /\ f_locals = None

\* main: expression = Binary(...)
test_ast_printer_expression ==
    /\ pc = "main"
    /\ \E expression \in PrinterExpressions : f_locals' = expression
    /\ pc' = "print"
    /\ UNCHANGED <<mode, script, scanner, parser, statements, resolver, k,
                   handler, interpreter, exit_code, lines, exception, run_log>>

\* main: print(AstPrinter().print(expression)), and the end of the script
test_ast_printer_print ==
    /\ pc = "print"
    /\ IF AstPrinter_init # ""
       THEN /\ pc' = "died" /\ exception' = AstPrinter_init /\ exit_code' = 1
            /\ interpreter' = interpreter
       ELSE /\ pc' = "exited" /\ exception' = exception /\ exit_code' = 0
            /\ interpreter' = [interpreter EXCEPT !.stdout = Append(@, AstPrinter_print(f_locals))]
    /\ UNCHANGED <<mode, script, scanner, parser, statements, resolver, k,
                   handler, lines, run_log, f_locals>>

PrinterNext ==
    \/ test_ast_printer_expression
    \/ test_ast_printer_print

PrinterSpec == PrinterInit /\ [][PrinterNext]_vars

(***************************************************************************)
(* Properties.  run_log counts, for the program of the current run(), what  *)
(* each stage reported and how many statements the resolver and the        *)
(* interpreter were handed; interpreter.log records the environments the   *)
(* interpreter left and the bindings its variable expressions used.        *)
(***************************************************************************)
IsPrefix(s, t) == Len(s) <= Len(t) /\ SubSeq(t, 1, Len(s)) = s

Events == {interpreter.log[i] : i \in DOMAIN interpreter.log}

Stderr == {handler.stderr[i] : i \in DOMAIN handler.stderr}

\* C1: in run() the resolver is never handed a program for which scanning or parsing reported
\* an error, and the interpreter is never handed a program for which scanning, parsing or
\* resolution reported an error: no statement of such a program is executed.
C1_StagesAreGated ==
    /\ (pc = "resolve" \/ run_log.resolved > 0)
           => run_log.scan_errors = 0 /\ run_log.parse_errors = 0
    /\ (pc = "interpret" \/ run_log.executed > 0)
           => run_log.scan_errors = 0 /\ run_log.parse_errors = 0 /\ run_log.resolve_errors = 0

\* a program whose resolution reported an error has come back from run() with nothing executed
C1_Witness ==
    /\ pc = "returned"
    /\ run_log.resolve_errors > 0
    /\ run_log.resolved = Len(statements)
    /\ run_log.executed = 0

\* C2: a LoxRuntimeError raised while statement k executes unwinds to Interpreter.interpret, is
\* reported once and sets HAD_RUNTIME_ERROR; interpret returns, so no statement after k and
\* nothing more of statement k is executed (in block_error the block stops after its first
\* print); what was printed before is kept.
C2_RuntimeErrorUnwinds ==
    [][/\ (/\ pc = "interpret"
           /\ k <= Len(statements)
           /\ Interpreter_execute(interpreter, statements[k]).kind = "LoxRuntimeError")
          => /\ pc' = "returned"
             /\ handler'.HAD_RUNTIME_ERROR
             /\ Len(handler'.stderr) = Len(handler.stderr) + 1
             /\ run_log'.runtime_errors = 1
             /\ IsPrefix(interpreter.stdout, interpreter'.stdout)
             /\ script = Files.block_error => interpreter'.stdout = <<"1">>
       /\ (run_log.runtime_errors > 0 /\ run_log'.runtime_errors > 0)
          => /\ pc' # "interpret"
             /\ run_log'.executed = run_log.executed
             /\ run_log'.runtime_errors = 1
             /\ interpreter'.stdout = interpreter.stdout
             /\ handler'.HAD_RUNTIME_ERROR]_vars

\* the second of three statements raised: the first one's output is there, the third was not run
C2_Witness ==
    /\ pc = "returned"
    /\ run_log.runtime_errors = 1
    /\ handler.HAD_RUNTIME_ERROR
    /\ run_log.executed = 2
    /\ Len(statements) = 3
    /\ interpreter.stdout = <<"1">>

\* C3: after run_file has run the file, the exit code is decided by the two flags, HAD_ERROR
\* first: 65 if HAD_ERROR, otherwise 70 if HAD_RUNTIME_ERROR, otherwise 0.
C3_ExitCodeByFlags ==
    /\ (pc = "exited" /\ mode = "file")
           => exit_code = IF handler.HAD_ERROR THEN 65
                          ELSE IF handler.HAD_RUNTIME_ERROR THEN 70 ELSE 0
    /\ \A had_error, had_runtime_error \in BOOLEAN :
           run_file_exit_code([HAD_ERROR |-> had_error, HAD_RUNTIME_ERROR |-> had_runtime_error,
                               stderr |-> <<>>])
               = IF had_error THEN 65 ELSE IF had_runtime_error THEN 70 ELSE 0

\* a file whose run reported a runtime error has exited with 70
C3_Witness ==
    /\ pc = "exited"
    /\ mode = "file"
    /\ handler.HAD_RUNTIME_ERROR
    /\ ~handler.HAD_ERROR
    /\ exit_code = 70

\* C4 (as claimed): a Variable or Assign node reads or writes the binding of the environment
\* that its published distance designates (globals when none is published), so in rebind the
\* function f keeps assigning the global a after the block has declared its own a: the run
\* prints b and then x.
C4_ResolvedBindingIsUsed ==
    /\ \A e \in Events :
           (e.ev \in {"variable", "assign"} /\ e.how = "ok") => e.held = e.designated
    /\ (script = Files.rebind /\ pc = "exited") => interpreter.stdout = <<"b", "x">>

\* C5 (as claimed): the counter program runs to completion and prints 1, 2, 3.
C5_CounterPrints123 ==
    (script = Files.counter /\ mode = "file")
        => /\ pc # "died"
           /\ pc = "exited" => (interpreter.stdout = <<"1", "2", "3">> /\ exit_code = 0)

\* C6: when a block, a function call or a class declaration has finished -- normally, by a
\* return or by a runtime error unwinding through it -- the current environment is the one
\* that was current before; between statements and after interpret it is the top-level one.
C6_EnvironmentRestored ==
    /\ \A e \in Events : e.ev = "left" => e.after = e.before
    /\ interpreter.environment = Interpreter_init.environment

\* a runtime error and a return have each unwound through a block
C6_Witness ==
    /\ pc = "returned"
    /\ \E e \in Events : e.ev = "left" /\ e.what = "execute_block" /\ e.how = "LoxRuntimeError"
    /\ \E e \in Events : e.ev = "left" /\ e.what = "execute_block" /\ e.how = "ReturnState"

\* C7 (as claimed): a return without a value is legal in every function body, an initializer
\* included: the resolver reports nothing, the call ends with nil (return_bare prints nil) or,
\* in an initializer, with the instance (return_init prints A instance).
C7_BareReturnIsLegal ==
    /\ (script \in {Files.return_bare, Files.return_init} /\ mode = "file")
           => /\ run_log.resolve_errors = 0
              /\ pc # "died"
    /\ (script = Files.return_bare /\ pc = "exited") => interpreter.stdout = <<"nil">>
    /\ (script = Files.return_init /\ pc = "exited") => interpreter.stdout = <<"A instance">>

RECURSIVE Reads(_, _)
\* expression expr reads the variable called lexeme
Reads(expr, lexeme) ==
    IF ~IsNode(expr) THEN FALSE
    ELSE CASE expr.k = "Variable" -> expr.name.lexeme = lexeme
           [] expr.k \in {"Binary", "Logical"} -> Reads(expr.left, lexeme) \/ Reads(expr.right, lexeme)
           [] expr.k = "Unary" -> Reads(expr.right, lexeme)
           [] expr.k = "Grouping" -> Reads(expr.expression, lexeme)
           [] OTHER -> FALSE

RECURSIVE ReadsOwnName(_, _)
\* stmt holds, in a local scope, a Var statement whose initializer reads the name it declares
ReadsOwnName(stmt, is_local) ==
    IF ~IsNode(stmt) THEN FALSE
    ELSE CASE stmt.k = "Var" -> is_local /\ Reads(stmt.initializer, stmt.name.lexeme)
           [] stmt.k = "Block" ->
                  \E i \in DOMAIN stmt.statements : ReadsOwnName(stmt.statements[i], TRUE)
           [] stmt.k = "Function" -> \E i \in DOMAIN stmt.body : ReadsOwnName(stmt.body[i], TRUE)
           [] stmt.k = "Class" -> \E i \in DOMAIN stmt.methods : ReadsOwnName(stmt.methods[i], TRUE)
           [] stmt.k = "If" -> \/ ReadsOwnName(stmt.then_branch, is_local)
                               \/ ReadsOwnName(stmt.else_branch, is_local)
           [] stmt.k = "While" -> ReadsOwnName(stmt.body, is_local)
           [] OTHER -> FALSE

ProgramReadsOwnName ==
    /\ run_log.resolved > 0
    /\ \E i \in DOMAIN statements : ReadsOwnName(statements[i], FALSE)

OwnInitializerReported ==
    \E i \in DOMAIN handler.stderr : \E line \in 1..Len(script) :
        handler.stderr[i] = "[Line " \o ToString(line)
                                \o "] Error: Can't read local variable in its own initializer."

C9_UndefinedPropertyIsReported ==
    \A e \in Events :
        e.ev = "undefined property"
            => /\ pc # "died"
               /\ pc \in {"returned", "exited"}
                      => /\ handler.HAD_RUNTIME_ERROR
                         /\ ("[Line " \o ToString(e.name.line) \o "] Undefined property '"
                                 \o e.name.lexeme \o "'.") \in Stderr

\* C10 (as claimed): a division of Numbers by zero is no error: it yields a Number, nothing is
\* reported, HAD_RUNTIME_ERROR stays unset and the next statement runs (div_zero prints twice).
C10_DivisionByZeroIsNoError ==
    /\ exception # "ZeroDivisionError"
    /\ (script = Files.div_zero /\ pc = "exited")
           => /\ ~handler.HAD_RUNTIME_ERROR
              /\ Len(interpreter.stdout) = 2
              /\ exit_code = 0

\* C11 (as claimed): inside a method body `this` evaluates to the instance the executing method
\* was bound to -- the one held by the nearest environment bind() made -- also when the
\* method's class is declared inside a method of another class (this_nested prints the Inner
\* instance).
C11_ThisIsTheBoundInstance ==
    /\ \A e \in Events : e.ev = "this" => e.held = e.bound
    /\ (script = Files.this_bound /\ pc = "exited") => interpreter.stdout = <<"1", "2", "1">>
    /\ (script = Files.this_nested /\ pc = "exited") => interpreter.stdout = <<"Inner instance">>

\* C12 (as claimed): super.m evaluates to the method m of the superclass of the class the
\* expression lexically appears in -- the "super" held by the nearest environment a class
\* declaration made -- bound to the current instance, also for a receiver of a further subclass.
C12_SuperIsLexical ==
    /\ \A e \in Events :
           e.ev = "super" => /\ e.lexical # 0 /\ e.bound # 0
                             /\ e.superclass = interpreter.dicts[e.lexical]["super"]
                             /\ e.instance = interpreter.dicts[e.bound]["this"]
    /\ (script = Files.super_chain /\ pc = "exited") => interpreter.stdout = <<"A.m">>
    /\ (script = Files.super_this /\ pc = "exited") => interpreter.stdout = <<"C instance">>
    /\ (script = Files.super_nested /\ pc = "exited") => interpreter.stdout = <<"A.m">>

Assignments == Cardinality({i \in DOMAIN interpreter.log : interpreter.log[i].ev = "assign"})

\* C13: calling a class makes a new instance, runs the init found on the class's chain bound
\* to that instance with the call's arguments, and yields the instance; the arity of a class
\* is the parameter count of that init, 0 without one.  In init_chain B inherits init(x) from
\* A: B(7) sets x on the new instance, so that reading b.x does not fail, D() has no init,
\* B(1, 2) is refused; in init_result the fields init wrote are those of the instance the call
\* returned.
C13_ClassCallMakesInstance ==
    /\ \A c \in DOMAIN interpreter.classes :
           LoxClass_arity(interpreter, c)
               = IF LoxClass_find_method(interpreter, c, "init") = 0 THEN 0
                 ELSE Len(interpreter.functions[LoxClass_find_method(interpreter, c, "init")]
                              .declaration.params)
    /\ script = Files.init_chain => pc # "died"
    /\ (script = Files.init_chain /\ pc = "exited")
           => /\ interpreter.stdout = <<"7", "B instance", "D instance">>
              /\ handler.stderr = <<"[Line 8] Expected 1 args but got 2.">>
              /\ \A c \in DOMAIN interpreter.classes :
                     LoxClass_arity(interpreter, c) = IF interpreter.classes[c].name = "D" THEN 0 ELSE 1
    /\ (script = Files.init_none /\ pc = "exited")
           => /\ handler.stderr = <<"[Line 2] Expected 0 args but got 1.">>
              /\ interpreter.instances = <<>>
    /\ (script = Files.init_result /\ pc = "exited")
           => /\ interpreter.stdout = <<"A instance", "1">>
              /\ Len(interpreter.instances) = 1

\* init_chain has run to its end: an inherited init was run, and a call with a wrong count refused
C13_Witness ==
    /\ pc = "exited"
    /\ script = Files.init_chain
    /\ Len(interpreter.instances) = 2
    /\ exit_code = 70

\* C14: a call evaluates the callee first; a callee that is not callable is refused with
\* "Can only call functions and classes." before any argument is evaluated (call_value: no
\* assignment has happened); otherwise the arguments are evaluated left to right (call_args
\* prints 1, 2, 20) and the arity is compared after all of them: on a mismatch every argument
\* has been evaluated and the body has not run (call_arity: three assignments, no output).
C14_CallOrder ==
    /\ (script = Files.call_args /\ pc = "exited")
           => /\ interpreter.stdout = <<"1", "2", "20">>
              /\ handler.stderr = <<>>
    /\ (script = Files.call_arity /\ pc = "exited")
           => /\ interpreter.stdout = <<>>
              /\ handler.stderr = <<"[Line 3] Expected 2 args but got 3.">>
              /\ Assignments = 3
              /\ Environment_values(interpreter, interpreter.globals)["t"] = LoxNumber(20, 1)
    /\ (script = Files.call_value /\ pc = "exited")
           => /\ handler.stderr = <<"[Line 3] Can only call functions and classes.">>
              /\ Assignments = 0
              /\ Environment_values(interpreter, interpreter.globals)["t"] = LoxNumber(0, 1)

\* call_arity has run to its end: the arguments were evaluated and the call refused
C14_Witness ==
    /\ pc = "exited"
    /\ script = Files.call_arity
    /\ Assignments = 3
    /\ handler.HAD_RUNTIME_ERROR

\* C15: `a and b` does not evaluate b when a is not truthy, `a or b` does not evaluate b when
\* a is truthy, and the result is then the value of a itself, not a Boolean; otherwise it is
\* the value of b.  In logic_short only the assignments of 2 and of 5 happen.
C15_ShortCircuit ==
    (script = Files.logic_short /\ pc = "exited")
        => /\ interpreter.stdout = <<"nil", "2", "2", "1", "5", "5">>
           /\ Assignments = 2
           /\ handler.stderr = <<>>

\* logic_short has run to its end, having skipped three right operands
C15_Witness ==
    /\ pc = "exited"
    /\ script = Files.logic_short
    /\ Assignments = 2
    /\ exit_code = 0

\* C16 (as claimed): print writes nil as nil, a Boolean as true or false, a number as its
\* decimal text without a trailing ".0", a string as itself, a function as <fn NAME>, a class
\* as Class NAME, an instance as NAME instance and the clock as <native fn>.
C16_PrintedText ==
    /\ stringify(interpreter, LOX_NIL) = "nil"
    /\ stringify(interpreter, LoxNumber(1, 1)) = "1"
    /\ stringify(interpreter, LoxNumber(5, 2)) = "2.5"
    /\ stringify(interpreter, LoxString("str")) = "str"
    /\ stringify(interpreter, Clock) = "<native fn>"
    /\ (script = Files.printing /\ pc = "exited")
           => interpreter.stdout = <<"nil", "true", "false", "1", "1.5", "2.5", "str", "<fn f>",
                                     "Class A", "A instance", "<native fn>">>

\* C18 (as claimed): run() skips a stage when an earlier one reported an error, from the first
\* pair on: the parser is not run on the tokens of a script for which the scanner reported an
\* error, so no declaration of it is parsed and no parse error is reported for it.
C18_ParserSkippedAfterScanError ==
    (pc = "parse" \/ statements # <<>> \/ run_log.parse_errors > 0) => run_log.scan_errors = 0

Globals == Environment_values(interpreter, interpreter.globals)

C20_InnermostScopeWins ==
    /\ (script = Files.shadow /\ pc = "interpret") => interpreter.locals[<<0, 14>>] = 0
    /\ (script = Files.this_nested /\ pc = "interpret") => interpreter.locals[<<0, 16>>] = 1
    /\ (script = Files.super_nested /\ pc = "interpret") => interpreter.locals[<<0, 43>>] = 2

\* C17 (as claimed): a function declaration with 255 parameters is accepted without an
\* error, one with 256 or more is reported by the parser (HAD_ERROR is set, so the program
\* is not executed) and is parsed to its end all the same.
C17_ParameterLimit ==
    pc = "declared"
        => /\ Len(statements) = 1
           /\ Parser_is_at_end(parser)
           /\ handler.HAD_ERROR <=> Len(f_locals.parameters) > ARGS_MAX_SIZE

\* C21 (as claimed): a Variable node gets an entry in the side-table exactly when its name is
\* declared in an enclosing local scope; a reference in a block or function body to a name
\* that the innermost scope does not hold (a global, a local of an outer scope) is resolved
\* without a failure, and a global gets no entry.  In local_only the local `a` has the one
\* entry; in global_in_block nothing is entered, in outer_local the one reference is.
C21_VariableResolvedIffLocal ==
    /\ resolver.exc = ""
    /\ (script = Files.local_only /\ pc = "interpret")
           => Cardinality(DOMAIN interpreter.locals) = 1
    /\ (script = Files.global_in_block /\ pc = "interpret")
           => interpreter.locals = EmptyDict
    /\ (script = Files.outer_local /\ pc = "interpret")
           => Cardinality(DOMAIN interpreter.locals) = 1

\* C22 (as claimed): HAD_ERROR and HAD_RUNTIME_ERROR are written monotonically: over any steps
\* of scanner, parser, resolver, interpreter and driver in one process, successive lines at
\* the prompt included, a flag that is true stays true.
C22_FlagsNeverCleared ==
    [][/\ handler.HAD_ERROR => handler'.HAD_ERROR
       /\ handler.HAD_RUNTIME_ERROR => handler'.HAD_RUNTIME_ERROR]_vars

\* C22 (amended): HAD_RUNTIME_ERROR, once true, stays true; HAD_ERROR, once true, stays true
\* through every step of scanner, parser, resolver and interpreter and of run() and run_file,
\* and is set back to false by one step only: run_prompt, each time run(line) has returned.
C22_FlagsClearedOnlyAtPrompt ==
    [][/\ handler.HAD_RUNTIME_ERROR => handler'.HAD_RUNTIME_ERROR
       /\ (handler.HAD_ERROR /\ ~handler'.HAD_ERROR)
              => mode = "prompt" /\ pc = "returned" /\ pc' = "prompt"]_vars

\* a session whose first line had a runtime error and whose second line a syntax error is back
\* at the prompt: HAD_ERROR has been cleared, HAD_RUNTIME_ERROR has not
C22_Witness ==
    /\ mode = "prompt"
    /\ pc = "prompt"
    /\ lines = 2
    /\ run_log.parse_errors > 0
    /\ ~handler.HAD_ERROR
    /\ handler.HAD_RUNTIME_ERROR

\* the lines a step adds to the error stream
NewReports == {handler'.stderr[i] : i \in (Len(handler.stderr) + 1)..Len(handler'.stderr)}

\* the report lines of the two syntax errors that are reported without panic mode
QuietReports ==
    {LoxErrorHandler_parse_error(LoxErrorHandler_init, parser.tokens[i], m).stderr[1] :
        i \in 1..Len(parser.tokens),
        m \in {"Invalid assignment target.", "Can't have more than 255 arguments."}}

\* a declaration that was abandoned, at the top level or inside a body
RECURSIVE Abandoned(_)
Abandoned(s) ==
    IF s = None THEN TRUE
    ELSE IF s.k = "Block" THEN \E i \in 1..Len(s.statements) : Abandoned(s.statements[i])
    ELSE IF s.k = "Function" THEN \E i \in 1..Len(s.body) : Abandoned(s.body[i])
    ELSE IF s.k = "Class" THEN \E i \in 1..Len(s.methods) : Abandoned(s.methods[i])
    ELSE IF s.k = "If" THEN Abandoned(s.then_branch) \/ (s.else_branch # None /\ Abandoned(s.else_branch))
    ELSE IF s.k = "While" THEN Abandoned(s.body)
    ELSE FALSE

\* where synchronization stops: a semicolon just consumed, a statement keyword next, or the end
AtSynchronizationPoint(p) ==
    \/ Parser_is_at_end(p)
    \/ Parser_previous(p).token_type = "SEMICOLON"
    \/ Parser_peek(p).token_type \in {"CLASS", "FUN", "VAR", "FOR", "IF", "WHILE", "PRINT", "RETURN"}

\* C23: a syntax error other than "Invalid assignment target." and the argument
\* limit puts the parser in panic mode: the declaration being parsed is abandoned,
\* and tokens are discarded up to a semicolon just consumed, a statement keyword
\* or the end of the tokens before parsing resumes
C23_SyntaxErrorAbandonsDeclaration ==
    [][(pc = "parse" /\ ~(NewReports \subseteq QuietReports))
          => /\ Abandoned(statements'[Len(statements')])
             /\ statements'[Len(statements')] = None => AtSynchronizationPoint(parser')]_vars

\* the names bound in some environment, and one bound in none
BoundNames == UNION {DOMAIN interpreter.dicts[d] : d \in DOMAIN interpreter.dicts}

\* the nearest environment on the chain from env whose _values has the key, 0 when none has
NearestHolding(I, env, lexeme) ==
    LET depths == {n \in 0..Len(I.envs) :
                      /\ Environment_ancestor(I, env, n) > 0
                      /\ lexeme \in DOMAIN Environment_values(I, Environment_ancestor(I, env, n))}
    IN  IF depths = {} THEN 0
        ELSE Environment_ancestor(I, env, CHOOSE n \in depths : \A m \in depths : n <= m)

\* J is I but for the one binding of lexeme in the _values dict of environment env
OnlyBindingChanged(I, J, env, lexeme, value) ==
    /\ J = [I EXCEPT !.dicts = J.dicts]
    /\ DOMAIN J.dicts = DOMAIN I.dicts
    /\ \A d \in DOMAIN I.dicts :
           /\ DOMAIN J.dicts[d] = DOMAIN I.dicts[d] \cup (IF d = I.envs[env].values THEN {lexeme} ELSE {})
           /\ \A x \in DOMAIN J.dicts[d] :
                  J.dicts[d][x] = IF d = I.envs[env].values /\ x = lexeme THEN value ELSE I.dicts[d][x]

\* C24: in every state the interpreter reaches, from every environment and for every name:
\* assign of a name no environment of the chain holds raises "Undefined variable 'X'." and
\* changes nothing; assign of a bound name changes the binding in the nearest environment
\* that holds it and nothing else; define succeeds and touches the _values of its own
\* environment only.  In assign_chain a = 3 and b = 4 inside the inner block reach the
\* global a and the outer block's b, and c = 5 fails without making c.
C24_AssignAndDefine ==
    /\ \A env \in DOMAIN interpreter.envs : \A lexeme \in BoundNames \cup {"unbound"} :
           LET name == Token("IDENTIFIER", lexeme, None, 1)
               value == LoxNumber(7, 1)
               holder == NearestHolding(interpreter, env, lexeme)
               assigned == Environment_assign(interpreter, env, name, value)
           IN  /\ holder = 0 =>
                      /\ assigned.kind = "LoxRuntimeError"
                      /\ assigned.message = "Undefined variable '" \o lexeme \o "'."
                      /\ assigned.token = name
                      /\ assigned.I = interpreter
               /\ holder # 0 =>
                      /\ assigned.kind = "ok"
                      /\ OnlyBindingChanged(interpreter, assigned.I, holder, lexeme, value)
               /\ OnlyBindingChanged(interpreter, Environment_define(interpreter, env, lexeme, value),
                                     env, lexeme, value)
    /\ (script = Files.assign_chain /\ pc = "exited") =>
           /\ interpreter.stdout = <<"4", "3">>
           /\ handler.stderr = <<"[Line 4] Undefined variable 'c'.">>
           /\ "c" \notin BoundNames
           /\ Globals["a"] = LoxNumber(3, 1)

\* assign_chain has run: two assignments found their binding up the chain, the third found none
C24_Witness ==
    /\ script = Files.assign_chain /\ pc = "exited" /\ exit_code = 70
    /\ \E e \in Events : e.ev = "assign" /\ e.how = "LoxRuntimeError"
    /\ \E e \in Events : e.ev = "assign" /\ e.how = "ok" /\ e.held # interpreter.envs[interpreter.globals].values
    /\ \E env \in DOMAIN interpreter.envs :
           NearestHolding(interpreter, env, "b") \notin {0, env}

\* the body and increment of a desugared loop: Block[body, Expression(increment)]
IsBodyThenIncrement(s, body_kind) ==
    /\ s.k = "Block" /\ Len(s.statements) = 2
    /\ s.statements[1].k = body_kind
    /\ s.statements[2].k = "Expression" /\ s.statements[2].expression.k = "Assign"
    /\ s.statements[2].expression.name.lexeme = "i"

\* C25: a for statement is parsed into Block[initializer, While(condition, Block[body,
\* Expression(increment)])]; a missing condition is the literal true, without increment the
\* body stands bare, without initializer the While stands bare; what the parser hands on is
\* made of Block, Var, While and Expression nodes only.
C25_ForIsDesugared ==
    /\ (script = Files.for_loop /\ Len(statements) >= 1) =>
           /\ statements[1].k = "Block" /\ Len(statements[1].statements) = 2
           /\ statements[1].statements[1].k = "Var"
           /\ statements[1].statements[1].name.lexeme = "i"
           /\ statements[1].statements[2].k = "While"
           /\ statements[1].statements[2].condition.k = "Binary"
           /\ statements[1].statements[2].condition.operator.token_type = "LESS"
           /\ IsBodyThenIncrement(statements[1].statements[2].body, "Print")
    /\ (script = Files.for_no_cond /\ Len(statements) >= 1) =>
           /\ statements[1].k = "Block" /\ Len(statements[1].statements) = 2
           /\ statements[1].statements[1].k = "Var"
           /\ statements[1].statements[2].k = "While"
           /\ statements[1].statements[2].condition = Literal(LOX_TRUE)
           /\ IsBodyThenIncrement(statements[1].statements[2].body, "If")
    /\ (script = Files.for_no_incr /\ Len(statements) >= 1) =>
           /\ statements[1].k = "Block" /\ Len(statements[1].statements) = 2
           /\ statements[1].statements[1].k = "Var"
           /\ statements[1].statements[2].k = "While"
           /\ statements[1].statements[2].condition.k = "Binary"
           /\ statements[1].statements[2].body.k = "Expression"
           /\ statements[1].statements[2].body.expression.k = "Assign"
    /\ (script = Files.for_no_init /\ Len(statements) >= 2) =>
           /\ statements[2].k = "While"
           /\ statements[2].condition.k = "Binary"
           /\ IsBodyThenIncrement(statements[2].body, "Print")
    /\ (script = Files.for_bare /\ Len(statements) >= 1) =>
           /\ statements[1].k = "While"
           /\ statements[1].condition = Literal(LOX_TRUE)
           /\ statements[1].body.k = "Expression"
           /\ statements[1].body.expression.k = "Call"
    /\ \A i \in DOMAIN statements : statements[i] # None => statements[i].k # "For"

\* loops with all three clauses and with none have been parsed and run
C25_Witness ==
    /\ script \in {Files.for_loop, Files.for_bare} /\ pc = "exited"
    /\ run_log.parse_errors = 0 /\ run_log.executed > 0
    /\ statements[1].k \in {"Block", "While"}

TestExpression ==
    Binary(Unary(Token("MINUS", "-", None, 1), Literal(PyInt(123))),
           Token("STAR", "*", None, 1),
           Grouping(Literal(PyFloat(4567, 100))))

\* C27: an AstPrinter can be made, and its print renders an expression of Binary, Unary,
\* Grouping and Literal nodes as a parenthesized prefix string: the script ends normally
\* having printed one line, which for the script's own expression is
\* (* (- 123) (group 45.67)).
C27_PrinterRenders ==
    pc \notin {"main", "print"} =>
        /\ pc = "exited" /\ exception = ""
        /\ Len(interpreter.stdout) = 1
        /\ f_locals = TestExpression => interpreter.stdout = <<"(* (- 123) (group 45.67))">>
        /\ f_locals = Literal(None) => interpreter.stdout = <<"nil">>

\* the _values dict of the current environment
CurrentValues(I) == Environment_values(I, I.environment)

\* C28: executing a class declaration changes the current environment only by binding the
\* class name: after a top-level class statement that raised nothing the current environment
\* is the one it was, it has at most the class name as a new key and its other bindings are
\* as before; without a superclass no environment gains a "super" entry; with a superclass
\* "super" is bound only in environments made for the declaration.
C28_ClassDeclarationBindsOnlyItsName ==
    [][(pc = "interpret" /\ k <= Len(statements) /\ statements[k].k = "Class" /\ k' = k + 1) =>
        /\ interpreter'.environment = interpreter.environment
        /\ DOMAIN CurrentValues(interpreter') \ DOMAIN CurrentValues(interpreter)
               \subseteq {statements[k].name.lexeme}
        /\ CurrentValues(interpreter')[statements[k].name.lexeme].t = "LoxClass"
        /\ \A x \in DOMAIN CurrentValues(interpreter) \ {statements[k].name.lexeme} :
               CurrentValues(interpreter')[x] = CurrentValues(interpreter)[x]
        /\ \A d \in DOMAIN interpreter.dicts :
               "super" \in DOMAIN interpreter'.dicts[d] => "super" \in DOMAIN interpreter.dicts[d]
        /\ statements[k].superclass = None =>
               \A d \in DOMAIN interpreter'.dicts : "super" \in DOMAIN interpreter'.dicts[d]
                                                     => d \in DOMAIN interpreter.dicts]_vars

\* the statements inside a statement, itself included; of a class, those of its methods' bodies
RECURSIVE NestedStatements(_)
NestedStatements(s) ==
    IF ~IsNode(s) THEN {}
    ELSE {s} \cup
         (IF s.k = "Block" THEN UNION {NestedStatements(s.statements[i]) : i \in DOMAIN s.statements}
          ELSE IF s.k = "Function" THEN UNION {NestedStatements(s.body[i]) : i \in DOMAIN s.body}
          ELSE IF s.k = "Class"
          THEN UNION {UNION {NestedStatements(s.methods[m].body[i]) : i \in DOMAIN s.methods[m].body} :
                         m \in DOMAIN s.methods}
          ELSE IF s.k = "If" THEN NestedStatements(s.then_branch) \cup NestedStatements(s.else_branch)
          ELSE IF s.k = "While" THEN NestedStatements(s.body)
          ELSE {})

\* the resolver on entering a nested statement: at the top level, in a block of a function,
\* in the body of a method of a class
ResolverEntries ==
    {resolver,
     [resolver EXCEPT !.scopes = <<EmptyDict>>, !.current_function = "Function"],
     [resolver EXCEPT !.scopes = <<("this" :> TRUE), EmptyDict>>,
                      !.current_function = "Method", !.current_class = "CLASS"]}

\* C29: the resolver's bookkeeping is balanced.  Resolving any statement, a block, function
\* or class nested in any other included, with or without static errors or a raised
\* exception, leaves the scope stack as deep as it was and the current function and class
\* kinds as they were; between top-level statements and after resolve() the stack is empty
\* and both kinds are none.
C29_ResolverIsBalanced ==
    /\ resolver.scopes = <<>>
    /\ resolver.current_function = "NoFunction"
    /\ resolver.current_class = "NONE"
    /\ (pc = "resolve" /\ k <= Len(statements)) =>
           \A s \in NestedStatements(statements[k]) : \A r \in ResolverEntries :
               /\ Len(Resolver_resolve_statement(r, s).scopes) = Len(r.scopes)
               /\ Resolver_resolve_statement(r, s).current_function = r.current_function
               /\ Resolver_resolve_statement(r, s).current_class = r.current_class

\* nested_errors has been resolved: a method with a block and a function in it, a class in a
\* function, three static errors
C29_Witness ==
    /\ script = Files.nested_errors /\ pc = "returned"
    /\ run_log.resolved = 3 /\ run_log.resolve_errors = 3
    /\ resolver.scopes = <<>>

\* the parser standing before token i + 1 of its list
ParserAt(i) == [parser EXCEPT !.current = i, !.exc = FALSE]

\* C30: Parser.parse terminates.  Every iteration of its loop consumes at least one token and
\* never moves past EOF; so do the iterations of the loops of _block and of the class body,
\* wherever in the tokens they begin: a _declaration that begins before EOF ends further on,
\* also when it reported an error without raising or synchronized after one, and a method
\* that begins before EOF ends further on or raises.
C30_ParseLoopsConsume ==
    [][pc = "parse" =>
        /\ parser.current < Len(parser.tokens)
        /\ ~Parser_is_at_end(parser) =>
               /\ parser'.current > parser.current
               /\ parser'.current < Len(parser.tokens)
               /\ Len(statements') = Len(statements) + 1
        /\ parser.current = 0 =>
               \A i \in 0..(Len(parser.tokens) - 2) :
                   /\ Parser_declaration(ParserAt(i)).p.current > i
                   /\ Parser_declaration(ParserAt(i)).p.current < Len(parser.tokens)
                   /\ ~Parser_declaration(ParserAt(i)).p.exc
                   /\ \/ Parser_function(ParserAt(i), "method").p.exc
                      \/ Parser_function(ParserAt(i), "method").p.current > i]_vars

\* malformed programs have been parsed to the end: an error that is reported without raising,
\* a synchronization that begins right behind a semicolon, errors in a block and in a class body
C30_Witness ==
    /\ script \in {Files.stray_paren, Files.sync_block, Files.class_body, Files.parse_error}
    /\ pc = "returned" /\ run_log.parse_errors > 0
    /\ Parser_is_at_end(parser)
    /\ \E i \in DOMAIN statements : statements[i] = None

====
